---- MODULE Spec2Model ----
(***************************************************************************)
(* StreamNotifier: the poll / change-detection / dispatch engine.          *)
(*                                                                         *)
(* The repository holds the engine twice: the TypeScript implementation    *)
(* (src/src/monitor/poller.ts, detector.ts, main.ts, twitch/api.ts) and    *)
(* its Go port (package monitor, discord, twitch).  Spec is the TypeScript *)
(* program, SpecGo the Go poller, SpecDiff applies the pure functions      *)
(* (detectChanges, combineChanges) to every pair of snapshots.             *)
(***************************************************************************)
EXTENDS Integers, Sequences, FiniteSets, TLC

VARIABLES
    pc,             \* control position of the worker's main flow
    inStart,        \* TRUE while the running poll() was called from start()
    userCache,      \* Poller.userCache: key -> TwitchUser | None
    states,         \* StateManager.states: key -> StreamerState | None
    pollCount,      \* Poller.pollCount
    restartPending, \* Poller.restartPending
    timeoutId,      \* Poller.timeoutId: "set" | "null"
    timerPending,   \* the runtime holds a timer that has not fired yet
    active,         \* poll() invocations in progress
    exitCode,       \* "running" | "0" | "1" | "signal"
    streams,        \* poll(): result of getStreams, key -> TwitchStream | None
    channels,       \* poll(): result of getChannels, key -> TwitchChannel | None
    idx,            \* poll(): index into config.streamers
    newState,       \* processStreamer(): newState
    oldState,       \* processStreamer(): oldState
    changes,        \* processStreamer(): combinedChanges
    ci,             \* onChanges handler: index of the change being sent
    wi,             \* onChanges handler: index of the webhook being tried
    inflight,       \* deliveries started and not settled: set of <<ci, wi>>
    pollError,      \* what the running cycle threw: "none" or the failed call
    attempts,       \* history: deliveries settled in this cycle
    emitted,        \* history: onChanges calls of this cycle
    vodLog,         \* history: getLatestVod calls of this cycle and their results
    statesAtStart,  \* history: states when the running cycle began
    everFailed,     \* history: some delivery has failed in this run
    synthCount,     \* history: key -> synthesized went-live events so far
    stopMark,       \* history: cycles started when stop() was called, or -1
    shutdownAt,     \* history: pc when a signal ended the process, or "none"
    pollBase,       \* history: cycles the process had completed at the first state
    dOld, dNew, dOut, dStage,  \* SpecDiff: inputs, output and stage
    aImpl,          \* SpecAuth: "ts" (TwitchAuth) | "go" (Auth) | "off"
    accessToken,    \* TwitchAuth.accessToken / Auth.accessToken
    expiresAt,      \* TwitchAuth.expiresAt / Auth.expiresAt
    now,            \* the clock, in minutes
    mu,             \* Auth.mu: the caller holding the mutex, or "free"
    cpc,            \* caller -> position of its getToken call
    calls,          \* caller -> getToken calls made so far
    issued,         \* tokens the token endpoint has issued so far
    atCall,         \* history: caller -> what its cache check read
    path,           \* history: caller -> "cache" | "refresh" | "none"
    fetched,        \* history: caller -> token its refresh obtained
    returned,       \* history: caller -> what its call returned
    expiryOf,       \* history: token -> expiry computed from its response
    sm,             \* SpecStore: StateManager.states, map key -> entry
    smWritten,      \* history: folded key -> last update made under it
    smGot,          \* what the last GetState returned
    smArg,          \* the string the last GetState was called with, or "none"
    apiPc,          \* SpecApi: position of the running TwitchAPI call, or "idle"
    apiCall,        \* the call: method, identifier list, whether poll() made it
    apiLog,         \* history: token and endpoint requests the call issued
    apiResult,      \* what the call returned: the keys of its map, or "error"
    supPc,          \* SpecSup: the supervisor process, "running" | "exited"
    supCode,        \* the supervisor's exit code, or "none"
    wPc,            \* the worker: "starting" | "ready" | "exited" | "reaped"
    wCode,          \* exit code of the exited worker, or "none"
    spawned,        \* history: Bun.spawn calls made so far
    alive,          \* history: worker processes alive
    zeroExits,      \* history: onExit callbacks that saw exit code 0
    sigAt           \* history: spawn count when the first signal came, or -1

vars == <<pc, inStart, userCache, states, pollCount, restartPending, timeoutId,
          timerPending, active, exitCode, streams, channels, idx, newState,
          oldState, changes, ci, wi, inflight, pollError, attempts, emitted,
          statesAtStart, everFailed, synthCount, vodLog, stopMark,
          shutdownAt, pollBase, dOld, dNew, dOut, dStage, aImpl, accessToken, expiresAt, now, mu, cpc, calls, issued,
          atCall, path, fetched, returned, expiryOf,
          sm, smWritten, smGot, smArg, apiPc, apiCall, apiLog, apiResult,
          supPc, supCode, wPc, wCode, spawned, alive, zeroExits, sigAt>>

pollerVars == <<pc, inStart, userCache, states, pollCount, restartPending,
          timeoutId, timerPending, active, exitCode, streams, channels, idx,
          newState, oldState, changes, ci, wi, inflight, pollError, attempts,
          emitted, statesAtStart, everFailed, synthCount, vodLog, stopMark,
          shutdownAt, pollBase>>

\* history of stop() and of the shutdown signal
ctlVars == <<stopMark, shutdownAt, pollBase>>

diffVars == <<dOld, dNew, dOut, dStage>>

authVars == <<aImpl, accessToken, expiresAt, now, mu, cpc, calls, issued,
              atCall, path, fetched, returned, expiryOf>>

storeVars == <<sm, smWritten, smGot, smArg>>

\* the variables of the component specifications besides diff and auth
apiVars == <<apiPc, apiCall, apiLog, apiResult>>

supVars == <<supPc, supCode, wPc, wCode, spawned, alive, zeroExits, sigAt>>

extraVars == <<storeVars, apiVars, supVars>>

\* what the scheduler's actions leave alone
sideVars == <<diffVars, authVars, extraVars>>

(***************************************************************************)
(* Values                                                                  *)
(***************************************************************************)
\* undefined / absent map entry / nil pointer
None == [absent |-> TRUE]
\* JavaScript null (startedAt, thumbnailUrl of an offline snapshot)
Null == "null"
\* an optional DetectedChange field that was not set
Undef == "undefined"

\* ChangeTypes
Online == "online"
Offline == "offline"
TitleChange == "titleChange"
GameChange == "gameChange"
TitleAndGameChange == "titleAndGameChange"

\* number of poll cycles a run may start
MaxPolls == 3

(***************************************************************************)
(* Configuration (immutable input of the core)                             *)
(***************************************************************************)
\* config.streamers[i].username
Streamers == <<"Foo", "bar", "ghost">>

\* String.prototype.toLowerCase / strings.ToLower on the handles in use
ToLower(s) == CASE s = "Foo" -> "foo" [] s = "FOO" -> "foo" [] OTHER -> s

Keys == {ToLower(Streamers[i]) : i \in 1..Len(Streamers)}

NotificationSettings(on, off, t, g) ==
    [online |-> on, offline |-> off, titleChange |-> t, gameChange |-> g]

\* config.streamers[i].webhooks: the notification flags of each webhook
Webhooks(username) ==
    CASE username = "Foo" ->
            << NotificationSettings(TRUE, TRUE, FALSE, FALSE),
               NotificationSettings(FALSE, FALSE, TRUE, TRUE),
               NotificationSettings(TRUE, TRUE, TRUE, TRUE) >>
      [] username = "bar" ->
            << NotificationSettings(TRUE, TRUE, TRUE, TRUE) >>
      [] OTHER ->
            << NotificationSettings(TRUE, TRUE, TRUE, TRUE) >>

(***************************************************************************)
(* The upstream API as the core sees it                                    *)
(***************************************************************************)
\* logins the users endpoint knows ("ghost" does not exist upstream)
UpstreamLogins == {"foo", "bar"}

TwitchUser(login) ==
    [id |-> IF login = "foo" THEN "id1" ELSE "id2", login |-> login,
     display_name |-> IF login = "foo" THEN "Foo" ELSE "Bar",
     profile_image_url |-> "avatar"]

\* titles and categories each entity may show upstream
TitlesOf(key) == IF key = "foo" THEN {"", "A"} ELSE {"A"}
GameIdsOf(key) == IF key = "foo" THEN {"", "X"} ELSE {"X"}
GameNameOf(id) == CASE id = "" -> "" [] id = "X" -> "GameX" [] OTHER -> "GameY"
StartTimes == {"t1"}

TwitchStream(title, gameId, startedAt) ==
    [title |-> title, game_id |-> gameId, game_name |-> GameNameOf(gameId),
     started_at |-> startedAt, thumbnail_url |-> "thumb", viewer_count |-> 1]

TwitchChannel(title, gameId) ==
    [title |-> title, game_id |-> gameId, game_name |-> GameNameOf(gameId)]

StreamsOf(key) ==
    {TwitchStream(t, g, s) : t \in TitlesOf(key), g \in GameIdsOf(key), s \in StartTimes}

ChannelsOf(key) ==
    {TwitchChannel(t, g) : t \in TitlesOf(key), g \in GameIdsOf(key)}

NoMap == [k \in Keys |-> None]

(***************************************************************************)
(* Pure functions of the TypeScript implementation                         *)
(***************************************************************************)
\* mutant of buildStreamerState: the start time is filled in for every entity
buildStreamerState_AlwaysStarted(user, stream, channel) ==
    [userId |-> user.id, username |-> user.login,
     displayName |-> user.display_name,
     profileImageUrl |-> user.profile_image_url,
     isLive |-> stream # None,
     title |-> IF stream # None THEN stream.title ELSE IF channel # None THEN channel.title ELSE "",
     gameId |-> IF stream # None THEN stream.game_id ELSE IF channel # None THEN channel.game_id ELSE "",
     gameName |-> IF stream # None THEN stream.game_name ELSE IF channel # None THEN channel.game_name ELSE "",
     startedAt |-> "t1",
     thumbnailUrl |-> IF stream # None THEN stream.thumbnail_url ELSE Null,
     viewerCount |-> IF stream # None THEN stream.viewer_count ELSE 0]

\* Poller.buildStreamerState
buildStreamerState(user, stream, channel) ==
    LET source == IF stream # None THEN stream ELSE channel
    IN  [userId |-> user.id,
         username |-> user.login,
         displayName |-> user.display_name,
         profileImageUrl |-> user.profile_image_url,
         isLive |-> stream # None,
         title |-> IF source # None THEN source.title ELSE "",
         gameId |-> IF source # None THEN source.game_id ELSE "",
         gameName |-> IF source # None THEN source.game_name ELSE "",
         startedAt |-> IF stream # None THEN stream.started_at ELSE Null,
         thumbnailUrl |-> IF stream # None THEN stream.thumbnail_url ELSE Null,
         viewerCount |-> IF stream # None THEN stream.viewer_count ELSE 0]

\* a DetectedChange with only its mandatory fields set
Change(type, state) ==
    [type |-> type, streamer |-> state.username,
     oldValue |-> Undef, newValue |-> Undef,
     oldTitle |-> Undef, newTitle |-> Undef,
     oldGame |-> Undef, newGame |-> Undef,
     streamStartedAt |-> Undef, vodUrl |-> Undef, vodThumbnailUrl |-> Undef,
     currentState |-> state]

\* mutant of detectRules: the title rule without its non-empty guard
detectRules_NoTitleGuard(old, new) ==
         (IF ~old.isLive /\ new.isLive
            THEN << Change(Online, new) >> ELSE <<>>)
      \o (IF old.isLive /\ ~new.isLive
            THEN << [Change(Offline, new) EXCEPT
                       !.streamStartedAt =
                          IF old.startedAt = Null THEN Undef ELSE old.startedAt] >>
            ELSE <<>>)
      \o (IF old.title # new.title
            THEN << [Change(TitleChange, new) EXCEPT
                       !.oldValue = old.title, !.newValue = new.title] >>
            ELSE <<>>)
      \o (IF old.gameId # new.gameId
            THEN << [Change(GameChange, new) EXCEPT
                       !.oldValue = old.gameName, !.newValue = new.gameName] >>
            ELSE <<>>)

\* mutant of detectRules: the game rule compares the old id with the new name
detectRules_GameIdVsName(old, new) ==
         (IF ~old.isLive /\ new.isLive
            THEN << Change(Online, new) >> ELSE <<>>)
      \o (IF old.isLive /\ ~new.isLive
            THEN << [Change(Offline, new) EXCEPT
                       !.streamStartedAt =
                          IF old.startedAt = Null THEN Undef ELSE old.startedAt] >>
            ELSE <<>>)
      \o (IF old.title # new.title /\ new.title # ""
            THEN << [Change(TitleChange, new) EXCEPT
                       !.oldValue = old.title, !.newValue = new.title] >>
            ELSE <<>>)
      \o (IF old.gameId # new.gameName
            THEN << [Change(GameChange, new) EXCEPT
                       !.oldValue = old.gameName, !.newValue = new.gameName] >>
            ELSE <<>>)

\* detectChanges, after the first-poll return: the four rules, in source order
detectRules(old, new) ==
         (IF ~old.isLive /\ new.isLive
            THEN << Change(Online, new) >> ELSE <<>>)
      \o (IF old.isLive /\ ~new.isLive
            THEN << [Change(Offline, new) EXCEPT
                       !.streamStartedAt =
                          IF old.startedAt = Null THEN Undef ELSE old.startedAt] >>
            ELSE <<>>)
      \o (IF old.title # new.title /\ new.title # ""
            THEN << [Change(TitleChange, new) EXCEPT
                       !.oldValue = old.title, !.newValue = new.title] >>
            ELSE <<>>)
      \o (IF old.gameId # new.gameId
            THEN << [Change(GameChange, new) EXCEPT
                       !.oldValue = old.gameName, !.newValue = new.gameName] >>
            ELSE <<>>)

\* the snapshot of an entity never seen live, with nothing known about it
UnknownOffline(new) ==
    [new EXCEPT !.isLive = FALSE, !.title = "", !.gameId = "", !.gameName = "",
                !.startedAt = Null, !.thumbnailUrl = Null, !.viewerCount = 0]

\* mutant of detectChanges: a missing old state is diffed as an empty one
detectChanges_NoBaseline(old, new) ==
    detectRules(IF old = None THEN UnknownOffline(new) ELSE old, new)

\* detectChanges
detectChanges(old, new) ==
    IF old = None THEN <<>> ELSE detectRules(old, new)

\* Array.prototype.find on the change type: the first match, or None
FindType(cs, type) ==
    LET hits == {i \in 1..Len(cs) : cs[i].type = type}
    IN  IF hits = {} THEN None
        ELSE cs[CHOOSE i \in hits : \A j \in hits : i <= j]

IsTitleOrGame(c) == c.type = TitleChange \/ c.type = GameChange

IsOther(c) == ~IsTitleOrGame(c)

\* mutant of combineChanges: the merged change is appended to the whole list
combineChanges_KeepStandalone(cs) ==
    LET titleChange == FindType(cs, TitleChange)
        gameChange == FindType(cs, GameChange)
    IN  IF titleChange = None \/ gameChange = None THEN cs
        ELSE cs
             \o << [Change(TitleAndGameChange, titleChange.currentState) EXCEPT
                      !.streamer = titleChange.streamer,
                      !.oldTitle = titleChange.oldValue,
                      !.newTitle = titleChange.newValue,
                      !.oldGame = gameChange.oldValue,
                      !.newGame = gameChange.newValue] >>

\* mutant of combineChanges: the merged change is put before the others
combineChanges_MergedFirst(cs) ==
    LET titleChange == FindType(cs, TitleChange)
        gameChange == FindType(cs, GameChange)
    IN  IF titleChange = None \/ gameChange = None THEN cs
        ELSE << [Change(TitleAndGameChange, titleChange.currentState) EXCEPT
                      !.streamer = titleChange.streamer,
                      !.oldTitle = titleChange.oldValue,
                      !.newTitle = titleChange.newValue,
                      !.oldGame = gameChange.oldValue,
                      !.newGame = gameChange.newValue] >>
             \o SelectSeq(cs, IsOther)

\* Poller.combineChanges
combineChanges(cs) ==
    LET titleChange == FindType(cs, TitleChange)
        gameChange == FindType(cs, GameChange)
    IN  IF titleChange = None \/ gameChange = None THEN cs
        ELSE SelectSeq(cs, IsOther)
             \o << [Change(TitleAndGameChange, titleChange.currentState) EXCEPT
                      !.streamer = titleChange.streamer,
                      !.oldTitle = titleChange.oldValue,
                      !.newTitle = titleChange.newValue,
                      !.oldGame = gameChange.oldValue,
                      !.newGame = gameChange.newValue] >>

\* isNotificationEnabled (config/schema)
isNotificationEnabled(changeType, notifications) ==
    IF changeType = TitleAndGameChange
    THEN notifications[TitleChange] \/ notifications[GameChange]
    ELSE notifications[changeType]

\* mutant of collectOfflineUserIds: every resolved streamer is collected
collectOfflineUserIds_AllResolved(cache, strms) ==
    LET F[i \in 0..Len(Streamers)] ==
            IF i = 0 THEN <<>>
            ELSE IF cache[ToLower(Streamers[i])] # None
                 THEN Append(F[i-1], cache[ToLower(Streamers[i])].id)
                 ELSE F[i-1]
    IN  F[Len(Streamers)]

\* Poller.collectOfflineUserIds: resolved streamers absent from `streams`
collectOfflineUserIds(cache, strms) ==
    LET Hit(i) == cache[ToLower(Streamers[i])] # None
                  /\ strms[ToLower(Streamers[i])] = None
        F[i \in 0..Len(Streamers)] ==
            IF i = 0 THEN <<>>
            ELSE IF Hit(i) THEN Append(F[i-1], cache[ToLower(Streamers[i])].id)
                 ELSE F[i-1]
    IN  F[Len(Streamers)]

\* TwitchAPI.getUsers: the users the endpoint returns, keyed by lowercased login
getUsers(logins) ==
    [k \in Keys |->
        IF \E i \in 1..Len(logins) : ToLower(logins[i]) = k /\ k \in UpstreamLogins
        THEN TwitchUser(k) ELSE None]

\* StateManager.getState: the key is case-folded by the store
getState(store, username) == store[ToLower(username)]

\* mutant of updateState: the entry is stored under the string as given
updateState_RawKey(store, username, state) ==
    [store EXCEPT ![username] = state]

\* mutant of updateState: an existing entry keeps its title
updateState_KeepTitle(store, username, state) ==
    LET old == store[ToLower(username)]
    IN  [store EXCEPT ![ToLower(username)] =
            IF old = None THEN state ELSE [state EXCEPT !.title = old.title]]

\* StateManager.updateState: replaces the whole entry under the folded key
updateState(store, username, state) ==
    [store EXCEPT ![ToLower(username)] = state]

\* ThumbnailSize.Width / Height substituted into a VOD thumbnail template
SubstituteSize(template) ==
    IF template = "vod-%{width}x%{height}" THEN "vod-440x248" ELSE template

\* the archive the videos endpoint returns for a user
TwitchVideo == [url |-> "vodurl", thumbnail_url |-> "vod-%{width}x%{height}"]

\* memory-diagnostics interval of poll(), in cycles
MEMORY_LOG_INTERVAL == 100

\* the callers of getToken
Callers == {"c1", "c2"}

\* accessToken before the first refresh: null (TwitchAuth), "" (Auth)
NoToken == 0

\* the margin before expiry within which a token is no longer used: 60000 ms
\* (TwitchAuth), time.Minute (Auth); the clock counts minutes
SafetyMargin == 1

\* expires_in of a token response, in minutes
ExpiresIns == {1, 3}

MaxTime == 3
MaxCalls == 2
MaxTokens == 2

\* the credential broker before its constructor has run any call
AuthFields ==
    /\ accessToken = NoToken
    /\ expiresAt = 0
    /\ now = 0
    /\ mu = "free"
    /\ cpc = [c \in Callers |-> "idle"]
    /\ calls = [c \in Callers |-> 0]
    /\ issued = 0
    /\ atCall = [c \in Callers |-> None]
    /\ path = [c \in Callers |-> "none"]
    /\ fetched = [c \in Callers |-> NoToken]
    /\ returned = [c \in Callers |-> "none"]
    /\ expiryOf = [t \in 1..(MaxTokens + 1) |-> 0]

\* no getToken caller is modelled
AuthOff == aImpl = "off" /\ AuthFields

\* the strings a StateManager may be called with
Handles == {"Foo", "foo", "FOO", "bar"}

\* the components checked on their own are at rest: NewStateManager has made
\* an empty map and no get was made; no TwitchAPI call is running;
\* runSupervisor has spawned its first worker
ExtraOff ==
    /\ sm = [h \in Handles |-> None]
    /\ smWritten = [k \in {ToLower(h) : h \in Handles} |-> None]
    /\ smGot = None
    /\ smArg = "none"
    /\ apiPc = "idle"
    /\ apiCall = [fn |-> "none", ids |-> <<>>, allLive |-> FALSE]
    /\ apiLog = <<>>
    /\ apiResult = {}
    /\ supPc = "running"
    /\ supCode = "none"
    /\ wPc = "starting"
    /\ wCode = "none"
    /\ spawned = 1
    /\ alive = 1
    /\ zeroExits = 0
    /\ sigAt = -1

(***************************************************************************)
(* The TypeScript worker: Poller.start, Poller.poll and the onChanges      *)
(* handler of startMonitor                                                 *)
(***************************************************************************)
InitPoller ==
    /\ pc = "start"
    /\ inStart = TRUE
    /\ userCache = NoMap
    /\ states = NoMap
    /\ pollCount = 0
    /\ restartPending = FALSE
    /\ timeoutId = "null"
    /\ timerPending = FALSE
    /\ active = 0
    /\ exitCode = "running"
    /\ streams = NoMap
    /\ channels = NoMap
    /\ idx = 1
    /\ newState = None
    /\ oldState = None
    /\ changes = <<>>
    /\ ci = 1
    /\ wi = 1
    /\ inflight = {}
    /\ pollError = "none"
    /\ attempts = <<>>
    /\ emitted = <<>>
    /\ statesAtStart = NoMap
    /\ everFailed = FALSE
    /\ synthCount = [k \in Keys |-> 0]
    /\ vodLog = <<>>
    /\ stopMark = -1
    /\ shutdownAt = "none"
    /\ pollBase = 0

Init ==
    /\ InitPoller
    /\ AuthOff
    /\ dOld = None
    /\ dNew = None
    /\ dOut = <<>>
    /\ dStage = "off"
    /\ ExtraOff

\* what a getStreams call may return: live entities only, keyed by login
StreamResults ==
    {r \in [Keys -> UNION {StreamsOf(k) : k \in Keys} \cup {None}] :
        \A k \in Keys : r[k] # None => (k \in UpstreamLogins /\ r[k] \in StreamsOf(k))}

\* what a getChannels call may return for the ids asked
ChannelResults(ids) ==
    {r \in [Keys -> UNION {ChannelsOf(k) : k \in Keys} \cup {None}] :
        \A k \in Keys :
            IF k \in UpstreamLogins /\ \E i \in 1..Len(ids) : ids[i] = TwitchUser(k).id
            THEN r[k] \in ChannelsOf(k)
            ELSE r[k] = None}

\* poll(): entry, up to the first await
BeginPoll ==
    /\ active' = active + 1
    /\ pc' = "getStreams"
    /\ pollError' = "none"
    /\ attempts' = <<>>
    /\ emitted' = <<>>
    /\ vodLog' = <<>>
    /\ statesAtStart' = states
    /\ streams' = NoMap
    /\ channels' = NoMap
    /\ idx' = 1
    /\ newState' = None
    /\ oldState' = None
    /\ changes' = <<>>
    /\ ci' = 1
    /\ wi' = 1

\* mutant of Throw: the failed call is followed by a new getStreams
Throw_Retry(call) ==
    /\ pollError' = call
    /\ pc' = "getStreams"

\* poll(): the catch block is entered with the error of `call`
Throw(call) ==
    /\ pollError' = call
    /\ pc' = "pollEnd"

\* mutant of TimerArmedBeforePoll: start() arms the timer before its poll()
TimerArmedBeforePoll_First == TRUE

\* start() calls scheduleNextPoll only after `await this.poll()`
TimerArmedBeforePoll == FALSE

\* Poller.start: initializeUserCache, then the first poll()
Start ==
    /\ pc = "start"
    /\ exitCode = "running"
    /\ \/ /\ userCache' = getUsers(Streamers)
          /\ timerPending' = TimerArmedBeforePoll
          /\ timeoutId' = IF TimerArmedBeforePoll THEN "set" ELSE timeoutId
          /\ BeginPoll
          /\ UNCHANGED exitCode
       \/ /\ exitCode' = "1"
          /\ pc' = "exited"
          /\ UNCHANGED <<timerPending, timeoutId>>
          /\ UNCHANGED <<userCache, active, pollError, attempts, emitted,
                         statesAtStart, streams, channels, idx, newState,
                         oldState, changes, ci, wi, vodLog>>
    /\ UNCHANGED <<inStart, states, pollCount, restartPending, inflight,
                   everFailed, synthCount>>
    /\ UNCHANGED ctlVars
    /\ UNCHANGED sideVars

\* poll(): await getStreams, then collectOfflineUserIds
GetStreams ==
    /\ pc = "getStreams"
    /\ \/ /\ Throw("getStreams")
          /\ UNCHANGED <<streams, channels, idx>>
       \/ \E r \in StreamResults :
            /\ streams' = r
            /\ idx' = 1
            /\ IF Len(collectOfflineUserIds(userCache, r)) > 0
               THEN pc' = "getChannels" /\ UNCHANGED channels
               ELSE pc' = "process" /\ channels' = NoMap
            /\ UNCHANGED pollError
    /\ UNCHANGED <<inStart, userCache, states, pollCount, restartPending,
                   timeoutId, timerPending, active, exitCode, newState,
                   oldState, changes, ci, wi, inflight, attempts, emitted,
                   statesAtStart, everFailed, synthCount>>
    /\ UNCHANGED vodLog
    /\ UNCHANGED ctlVars
    /\ UNCHANGED sideVars

\* poll(): await getChannels for the offline ids
GetChannels ==
    /\ pc = "getChannels"
    /\ \/ /\ Throw("getChannels")
          /\ UNCHANGED channels
       \/ \E r \in ChannelResults(collectOfflineUserIds(userCache, streams)) :
            /\ channels' = r
            /\ pc' = "process"
            /\ UNCHANGED pollError
    /\ UNCHANGED <<inStart, userCache, states, pollCount, restartPending,
                   timeoutId, timerPending, active, exitCode, streams, idx,
                   newState, oldState, changes, ci, wi, inflight, attempts,
                   emitted, statesAtStart, everFailed, synthCount>>
    /\ UNCHANGED vodLog
    /\ UNCHANGED ctlVars
    /\ UNCHANGED sideVars

\* mutant of detectAndCombine: no online change is synthesized on the first poll
detectAndCombine_NoSynth(old, new) ==
    combineChanges(detectChanges(old, new))

\* mutant of detectAndCombine: an online change is added for every live entity
detectAndCombine_SynthWhenLive(old, new) ==
    combineChanges(
        detectChanges(old, new)
        \o (IF new.isLive THEN << Change(Online, new) >> ELSE <<>>))

\* processStreamer: detectChanges, the online change synthesized on the
\* first poll of a live entity, then combineChanges
detectAndCombine(old, new) ==
    combineChanges(
        detectChanges(old, new)
        \o (IF old = None /\ new.isLive THEN << Change(Online, new) >> ELSE <<>>))

\* mutant of HasOffline: any change leads to a lookup
HasOffline_AnyChange(cs) == Len(cs) > 0

HasOffline(cs) == \E i \in 1..Len(cs) : cs[i].type = Offline

\* onChanges handler: the (change, webhook) pairs it sends to, in loop order
SendPositions(cs, hooks) ==
    {p \in (1..Len(cs)) \X (1..Len(hooks)) :
        isNotificationEnabled(cs[p[1]].type, hooks[p[2]])}

LoopBefore(p, q) == p[1] < q[1] \/ (p[1] = q[1] /\ p[2] < q[2])

\* the first pair after `p` the two nested loops send to, <<0, 0>> if none
NextSend(cs, hooks, p) ==
    LET rest == {q \in SendPositions(cs, hooks) : LoopBefore(p, q)}
    IN  IF rest = {} THEN <<0, 0>>
        ELSE CHOOSE q \in rest : \A r \in rest : r = q \/ LoopBefore(q, r)

\* poll(): the for loop over config.streamers moves on
NextStreamer ==
    /\ idx' = idx + 1
    /\ pc' = IF idx + 1 > Len(Streamers) THEN "pollEnd" ELSE "process"

\* mutant of HandlerAdvance: the handler returns without sending
HandlerAdvance_ReturnEarly(cs, p) ==
    pc' = "update" /\ UNCHANGED <<ci, wi>>

\* the onChanges handler runs up to its next sendWebhook, or returns
HandlerAdvance(cs, p) ==
    LET q == NextSend(cs, Webhooks(Streamers[idx]), p)
    IN  IF q = <<0, 0>>
        THEN pc' = "update" /\ UNCHANGED <<ci, wi>>
        ELSE pc' = "send" /\ ci' = q[1] /\ wi' = q[2]

\* history record of one onChanges(changes, streamerConfig) call
Emission(cs) ==
    [streamer |-> idx, key |-> ToLower(Streamers[idx]), changes |-> cs]

\* processStreamer: `if (combinedChanges.length > 0) await this.onChanges(...)`
CallOnChanges(cs) ==
    IF Len(cs) > 0
    THEN /\ emitted' = Append(emitted, Emission(cs))
         /\ HandlerAdvance(cs, <<1, 0>>)
    ELSE /\ pc' = "update"
         /\ UNCHANGED <<emitted, ci, wi>>

\* processStreamer, up to attachVodInfo's first await
ProcessStreamer ==
    /\ pc = "process"
    /\ LET username == ToLower(Streamers[idx])
           user == userCache[username]
       IN  IF user = None
           THEN /\ NextStreamer
                /\ UNCHANGED <<newState, oldState, changes, ci, wi, emitted,
                               synthCount>>
           ELSE LET new == buildStreamerState(user, streams[username],
                                              channels[username])
                    old == getState(states, username)
                    cs == detectAndCombine(old, new)
                IN  /\ newState' = new
                    /\ oldState' = old
                    /\ changes' = cs
                    /\ synthCount' =
                         IF old = None /\ new.isLive
                         THEN [synthCount EXCEPT ![username] = @ + 1]
                         ELSE synthCount
                    /\ IF HasOffline(cs)
                       THEN pc' = "vod" /\ UNCHANGED <<ci, wi, emitted>>
                       ELSE CallOnChanges(cs)
                    /\ UNCHANGED idx
    /\ UNCHANGED <<inStart, userCache, states, pollCount, restartPending,
                   timeoutId, timerPending, active, exitCode, streams,
                   channels, inflight, pollError, attempts, statesAtStart,
                   everFailed>>
    /\ UNCHANGED vodLog
    /\ UNCHANGED ctlVars
    /\ UNCHANGED sideVars

\* mutant of WithVod: the offline change is rebuilt around the recording
WithVod_Rebuilt(cs, vod) ==
    [i \in 1..Len(cs) |->
        IF cs[i].type = Offline /\ vod # None
        THEN [Change(Offline, cs[i].currentState) EXCEPT
                 !.vodUrl = vod.url,
                 !.vodThumbnailUrl = SubstituteSize(vod.thumbnail_url)]
        ELSE cs[i]]

\* attachVodInfo: the fields set on an offline change when a VOD exists
WithVod(cs, vod) ==
    [i \in 1..Len(cs) |->
        IF cs[i].type = Offline /\ vod # None
        THEN [cs[i] EXCEPT !.vodUrl = vod.url,
                           !.vodThumbnailUrl = SubstituteSize(vod.thumbnail_url)]
        ELSE cs[i]]

\* history record of one getLatestVod(userId) call
VodCall(result) ==
    [streamer |-> idx, key |-> ToLower(Streamers[idx]), result |-> result]

\* attachVodInfo: await getLatestVod for the offline change
AttachVodInfo ==
    /\ pc = "vod"
    /\ \/ /\ Throw("getLatestVod")
          /\ vodLog' = Append(vodLog, VodCall("error"))
          /\ UNCHANGED <<changes, ci, wi, emitted>>
       \/ \E vod \in {TwitchVideo, None} :
            /\ changes' = WithVod(changes, vod)
            /\ vodLog' = Append(vodLog, VodCall(IF vod = None THEN "null" ELSE "vod"))
            /\ CallOnChanges(WithVod(changes, vod))
            /\ UNCHANGED pollError
    /\ UNCHANGED <<inStart, userCache, states, pollCount, restartPending,
                   timeoutId, timerPending, active, exitCode, streams,
                   channels, idx, newState, oldState, inflight, attempts,
                   statesAtStart, everFailed, synthCount>>
    /\ UNCHANGED ctlVars
    /\ UNCHANGED sideVars

\* onChanges handler: sendWebhook(webhook.url, ...) is called
SendStart ==
    /\ pc = "send"
    /\ inflight' = inflight \cup {<<ci, wi>>}
    /\ pc' = "sending"
    /\ UNCHANGED <<inStart, userCache, states, pollCount, restartPending,
                   timeoutId, timerPending, active, exitCode, streams,
                   channels, idx, newState, oldState, changes, ci, wi,
                   pollError, attempts, emitted, statesAtStart, everFailed,
                   synthCount>>
    /\ UNCHANGED vodLog
    /\ UNCHANGED ctlVars
    /\ UNCHANGED sideVars

Attempt(ok) ==
    [streamer |-> idx, key |-> ToLower(Streamers[idx]),
     type |-> changes[ci].type, change |-> ci, webhook |-> wi, ok |-> ok]

\* onChanges handler: `await sendWebhook(...)` resolves, or rejects and the
\* rejection leaves the handler, processStreamer and the loop of poll()
AwaitSend(ok) ==
    IF ok
    THEN /\ HandlerAdvance(changes, <<ci, wi>>)
         /\ UNCHANGED <<pollError, everFailed>>
    ELSE /\ Throw("sendWebhook")
         /\ everFailed' = TRUE
         /\ UNCHANGED <<ci, wi>>

\* sendWebhook settles: 2xx, or a non-2xx response / transport error
SendSettle ==
    /\ pc = "sending"
    /\ \E ok \in BOOLEAN :
         /\ attempts' = Append(attempts, Attempt(ok))
         /\ inflight' = inflight \ {<<ci, wi>>}
         /\ AwaitSend(ok)
    /\ UNCHANGED <<inStart, userCache, states, pollCount, restartPending,
                   timeoutId, timerPending, active, exitCode, streams,
                   channels, idx, newState, oldState, changes, emitted,
                   statesAtStart, synthCount>>
    /\ UNCHANGED vodLog
    /\ UNCHANGED ctlVars
    /\ UNCHANGED sideVars

\* processStreamer: this.stateManager.updateState(username, newState)
UpdateState ==
    /\ pc = "update"
    /\ states' = updateState(states, Streamers[idx], newState)
    /\ NextStreamer
    /\ UNCHANGED <<inStart, userCache, pollCount, restartPending, timeoutId,
                   timerPending, active, exitCode, streams, channels,
                   newState, oldState, changes, ci, wi, inflight, pollError,
                   attempts, emitted, statesAtStart, everFailed, synthCount>>
    /\ UNCHANGED vodLog
    /\ UNCHANGED ctlVars
    /\ UNCHANGED sideVars

\* mutant of isAllOffline: an entity without an entry counts as live
isAllOffline_AbsentBlocks(store) ==
    \A i \in 1..Len(Streamers) :
        LET state == getState(store, Streamers[i])
        IN  state # None /\ ~state.isLive

\* mutant of isAllOffline: live entries are not looked at
isAllOffline_IgnoresLive(store) ==
    \A i \in 1..Len(Streamers) :
        LET state == getState(store, Streamers[i])
        IN  state = None \/ state.isLive \/ ~state.isLive

\* mutant of isAllOffline: only the first configured streamer is looked at
isAllOffline_FirstOnly(store) ==
    LET state == getState(store, Streamers[1])
    IN  state = None \/ ~state.isLive

\* Poller.isAllOffline
isAllOffline(store) ==
    \A i \in 1..Len(Streamers) :
        LET state == getState(store, Streamers[i])
        IN  state = None \/ ~state.isLive

\* poll() after the try block: pollCount++, logMemory, checkRestart; then the
\* caller goes on: start() or the timer callback arms the next timer
PollEnd ==
    /\ pc = "pollEnd"
    /\ pollCount' = pollCount + 1
    /\ \E overLimit \in BOOLEAN :
         restartPending' =
            IF pollCount' % MEMORY_LOG_INTERVAL = 0 /\ ~restartPending /\ overLimit
            THEN TRUE ELSE restartPending
    /\ IF restartPending' /\ isAllOffline(states)
       THEN /\ timeoutId' = "null"
            /\ timerPending' = FALSE
            /\ exitCode' = "0"
            /\ pc' = "exited"
            /\ UNCHANGED <<inStart, active>>
       ELSE /\ active' = active - 1
            /\ pc' = "idle"
            /\ inStart' = FALSE
            /\ exitCode' = exitCode
            /\ IF inStart \/ timeoutId # "null"
               THEN timeoutId' = "set" /\ timerPending' = TRUE
               ELSE UNCHANGED <<timeoutId, timerPending>>
    /\ UNCHANGED <<userCache, states, streams, channels, idx, newState,
                   oldState, changes, ci, wi, inflight, pollError, attempts,
                   emitted, statesAtStart, everFailed, synthCount>>
    /\ UNCHANGED vodLog
    /\ UNCHANGED ctlVars
    /\ UNCHANGED sideVars

\* mutant of TimerRearmed: a repeating timer (setInterval) stays armed
TimerRearmed_SetInterval == TRUE

\* scheduleNextPoll arms a one-shot timer (setTimeout): once it has fired, no
\* timer is pending until the callback arms the next one
TimerRearmed == FALSE

\* the timer armed by scheduleNextPoll fires: its callback calls poll()
TimerFire ==
    /\ timerPending
    /\ exitCode = "running"
    /\ pollCount + active < pollBase + MaxPolls
    /\ timerPending' = TimerRearmed
    /\ IF active = 0
       THEN BeginPoll
       ELSE /\ active' = active + 1
            /\ UNCHANGED <<pc, pollError, attempts, emitted, statesAtStart,
                           streams, channels, idx, newState, oldState,
                           changes, ci, wi, vodLog>>
    /\ UNCHANGED <<inStart, userCache, states, pollCount, restartPending,
                   timeoutId, exitCode, inflight, everFailed, synthCount>>
    /\ UNCHANGED ctlVars
    /\ UNCHANGED sideVars

\* the cycles started so far
CyclesStarted == pollCount + active

\* Poller.stop: without a timeoutId it returns at once, otherwise it clears
\* the timer and the id
StopTimer ==
    IF timeoutId = "null"
    THEN UNCHANGED <<timeoutId, timerPending>>
    ELSE timeoutId' = "null" /\ timerPending' = FALSE

\* stop() is called on a started Poller
Stop ==
    /\ pc \notin {"start", "exited"}
    /\ stopMark = -1
    /\ StopTimer
    /\ stopMark' = CyclesStarted
    /\ UNCHANGED <<pc, inStart, userCache, states, pollCount, restartPending,
                   active, exitCode, streams, channels, idx, newState,
                   oldState, changes, ci, wi, inflight, pollError, attempts,
                   emitted, statesAtStart, everFailed, synthCount, vodLog,
                   shutdownAt, pollBase>>
    /\ UNCHANGED sideVars

\* SIGINT or SIGTERM reaches the worker.  Once start() has resolved the
\* handler `shutdown` runs: poller.stop(), process.exit(0).  Before that no
\* handler is registered and the signal ends the process.
Shutdown ==
    /\ pc # "exited"
    /\ shutdownAt' = pc
    /\ pc' = "exited"
    /\ IF inStart
       THEN /\ exitCode' = "signal"
            /\ UNCHANGED <<timeoutId, timerPending, stopMark>>
       ELSE /\ StopTimer
            /\ stopMark' = IF stopMark = -1 THEN CyclesStarted ELSE stopMark
            /\ exitCode' = "0"
    /\ UNCHANGED <<inStart, userCache, states, pollCount, restartPending,
                   active, streams, channels, idx, newState, oldState,
                   changes, ci, wi, inflight, pollError, attempts, emitted,
                   statesAtStart, everFailed, synthCount, vodLog, pollBase>>
    /\ UNCHANGED sideVars

Next ==
    \/ Start
    \/ GetStreams
    \/ GetChannels
    \/ ProcessStreamer
    \/ AttachVodInfo
    \/ SendStart
    \/ SendSettle
    \/ UpdateState
    \/ PollEnd
    \/ TimerFire
    \/ Stop
    \/ Shutdown

Spec == Init /\ [][Next]_vars

(***************************************************************************)
(* The resource guard: logMemory looks at the RSS every MEMORY_LOG_INTERVAL *)
(* cycles, so a restart can only be asked for from the hundredth cycle on. *)
(* This specification follows a started process from the idle state before *)
(* that cycle.                                                             *)
(***************************************************************************)
\* the snapshot an earlier cycle stored for a resolved entity
StoredLive(key) == buildStreamerState(TwitchUser(key), TwitchStream("A", "X", "t1"), None)
StoredOffline(key) == buildStreamerState(TwitchUser(key), None, TwitchChannel("A", "X"))

\* stores the process may hold between two cycles: one entry per resolved entity
RunningStores ==
    {[k \in Keys |-> IF k \in UpstreamLogins
                     THEN (IF k \in live THEN StoredLive(k) ELSE StoredOffline(k))
                     ELSE None] : live \in SUBSET UpstreamLogins}

\* idle between cycle MEMORY_LOG_INTERVAL - 1 and the next one: start() has
\* resolved, the timer is armed, no restart has been asked for yet
InitRestart ==
    /\ pc = "idle"
    /\ inStart = FALSE
    /\ userCache = getUsers(Streamers)
    /\ states \in RunningStores
    /\ pollCount = MEMORY_LOG_INTERVAL - 1
    /\ restartPending = FALSE
    /\ timeoutId = "set"
    /\ timerPending = TRUE
    /\ active = 0
    /\ exitCode = "running"
    /\ streams = NoMap
    /\ channels = NoMap
    /\ idx = 1
    /\ newState = None
    /\ oldState = None
    /\ changes = <<>>
    /\ ci = 1
    /\ wi = 1
    /\ inflight = {}
    /\ pollError = "none"
    /\ attempts = <<>>
    /\ emitted = <<>>
    /\ statesAtStart = states
    /\ everFailed = FALSE
    /\ synthCount = [k \in Keys |-> 0]
    /\ vodLog = <<>>
    /\ stopMark = -1
    /\ shutdownAt = "none"
    /\ pollBase = pollCount
    /\ AuthOff
    /\ dOld = None
    /\ dNew = None
    /\ dOut = <<>>
    /\ dStage = "off"
    /\ ExtraOff

NextRestart ==
    \/ GetStreams
    \/ GetChannels
    \/ ProcessStreamer
    \/ AttachVodInfo
    \/ SendStart
    \/ SendSettle
    \/ UpdateState
    \/ PollEnd
    \/ TimerFire
    \/ Stop
    \/ Shutdown

SpecRestart == InitRestart /\ [][NextRestart]_vars

(***************************************************************************)
(* Progress.  The upstream requests carry AbortSignal.timeout(15_000), so  *)
(* each await on them ends; timers fire; the synchronous steps run.  The   *)
(* fetch of sendWebhook carries no signal and no timeout: it settles only  *)
(* if the sink answers, so nothing makes SendSettle happen.                *)
(***************************************************************************)
CycleStep ==
    \/ GetStreams
    \/ GetChannels
    \/ ProcessStreamer
    \/ AttachVodInfo
    \/ SendStart
    \/ UpdateState
    \/ PollEnd
    \/ TimerFire

SpecLive == Spec /\ WF_vars(CycleStep)

(***************************************************************************)
(* The Go port: package monitor (poller.go, detector.go, state.go).  Go's  *)
(* zero values ("" and 0) stand where TypeScript has null and undefined.   *)
(***************************************************************************)
\* buildStreamerState (Go)
GoBuildStreamerState(user, stream, channel) ==
    LET base == [userId |-> user.id, username |-> user.login,
                 displayName |-> user.display_name,
                 profileImageUrl |-> user.profile_image_url,
                 isLive |-> FALSE, title |-> "", gameId |-> "", gameName |-> "",
                 startedAt |-> "", thumbnailUrl |-> "", viewerCount |-> 0]
    IN  IF stream # None
        THEN [base EXCEPT !.isLive = TRUE, !.title = stream.title,
                          !.gameId = stream.game_id, !.gameName = stream.game_name,
                          !.startedAt = stream.started_at,
                          !.thumbnailUrl = stream.thumbnail_url,
                          !.viewerCount = stream.viewer_count]
        ELSE IF channel # None
        THEN [base EXCEPT !.title = channel.title, !.gameId = channel.game_id,
                          !.gameName = channel.game_name]
        ELSE base

\* a Go DetectedChange with Type, Streamer and CurrentState set
GoChange(type, state) ==
    [type |-> type, streamer |-> state.username,
     oldValue |-> "", newValue |-> "", oldTitle |-> "", newTitle |-> "",
     oldGame |-> "", newGame |-> "",
     streamStartedAt |-> "", vodUrl |-> "", vodThumbnailUrl |-> "",
     currentState |-> state]

\* mutant of GoDetectChanges: the title rule without `newState.Title != ""`
GoDetectChanges_NoTitleGuard(old, new) ==
    IF old = None THEN <<>>
    ELSE (IF ~old.isLive /\ new.isLive
            THEN << GoChange(Online, new) >> ELSE <<>>)
      \o (IF old.isLive /\ ~new.isLive
            THEN << [GoChange(Offline, new) EXCEPT
                       !.streamStartedAt = old.startedAt] >>
            ELSE <<>>)
      \o (IF old.title # new.title
            THEN << [GoChange(TitleChange, new) EXCEPT
                       !.oldValue = old.title, !.newValue = new.title] >>
            ELSE <<>>)
      \o (IF old.gameId # new.gameId
            THEN << [GoChange(GameChange, new) EXCEPT
                       !.oldValue = old.gameName, !.newValue = new.gameName] >>
            ELSE <<>>)

\* DetectChanges (Go)
GoDetectChanges(old, new) ==
    IF old = None THEN <<>>
    ELSE (IF ~old.isLive /\ new.isLive
            THEN << GoChange(Online, new) >> ELSE <<>>)
      \o (IF old.isLive /\ ~new.isLive
            THEN << [GoChange(Offline, new) EXCEPT
                       !.streamStartedAt = old.startedAt] >>
            ELSE <<>>)
      \o (IF old.title # new.title /\ new.title # ""
            THEN << [GoChange(TitleChange, new) EXCEPT
                       !.oldValue = old.title, !.newValue = new.title] >>
            ELSE <<>>)
      \o (IF old.gameId # new.gameId
            THEN << [GoChange(GameChange, new) EXCEPT
                       !.oldValue = old.gameName, !.newValue = new.gameName] >>
            ELSE <<>>)

\* the pointer combineChanges (Go) keeps: the last change of the type, or nil
LastType(cs, type) ==
    LET hits == {i \in 1..Len(cs) : cs[i].type = type}
    IN  IF hits = {} THEN None
        ELSE cs[CHOOSE i \in hits : \A j \in hits : j <= i]

\* combineChanges (Go)
GoCombineChanges(cs) ==
    LET titleChange == LastType(cs, TitleChange)
        gameChange == LastType(cs, GameChange)
    IN  IF titleChange = None \/ gameChange = None THEN cs
        ELSE SelectSeq(cs, IsOther)
             \o << [GoChange(TitleAndGameChange, titleChange.currentState) EXCEPT
                      !.streamer = titleChange.streamer,
                      !.oldTitle = titleChange.oldValue,
                      !.newTitle = titleChange.newValue,
                      !.oldGame = gameChange.oldValue,
                      !.newGame = gameChange.newValue] >>

\* processStreamer (Go): DetectChanges, the initial Online change, combineChanges
GoDetectAndCombine(old, new) ==
    GoCombineChanges(
        GoDetectChanges(old, new)
        \o (IF old = None /\ new.isLive THEN << GoChange(Online, new) >> ELSE <<>>))

\* Run: the poll loop leaves poll() and waits in select
GoPollReturn ==
    /\ pc' = "idle"
    /\ active' = active - 1
    /\ pollCount' = pollCount + 1
    /\ inStart' = FALSE
    /\ timeoutId' = "set"

\* poll (Go): the for loop over cfg.Streamers moves on, or poll returns
GoNextStreamer ==
    /\ idx' = idx + 1
    /\ IF idx + 1 > Len(Streamers)
       THEN GoPollReturn
       ELSE /\ pc' = "process"
            /\ UNCHANGED <<active, pollCount, inStart, timeoutId>>

\* Run: initializeUserCache, then the first poll
GoRun ==
    /\ pc = "start"
    /\ exitCode = "running"
    /\ \/ /\ userCache' = getUsers(Streamers)
          /\ BeginPoll
          /\ UNCHANGED exitCode
       \/ /\ exitCode' = "1"
          /\ pc' = "exited"
          /\ UNCHANGED <<userCache, active, pollError, attempts, emitted,
                         statesAtStart, streams, channels, idx, newState,
                         oldState, changes, ci, wi, vodLog>>
    /\ UNCHANGED <<inStart, states, pollCount, restartPending, timeoutId,
                   timerPending, inflight, everFailed, synthCount>>
    /\ UNCHANGED ctlVars
    /\ UNCHANGED sideVars

\* poll (Go): GetStreams; an error is logged and poll returns
GoGetStreams ==
    /\ pc = "getStreams"
    /\ \/ /\ pollError' = "getStreams"
          /\ GoPollReturn
          /\ UNCHANGED <<streams, channels, idx>>
       \/ \E r \in StreamResults :
            /\ streams' = r
            /\ idx' = 1
            /\ IF Len(collectOfflineUserIds(userCache, r)) > 0
               THEN pc' = "getChannels" /\ UNCHANGED channels
               ELSE pc' = "process" /\ channels' = NoMap
            /\ UNCHANGED <<pollError, active, pollCount, inStart, timeoutId>>
    /\ UNCHANGED <<userCache, states, restartPending, timerPending, exitCode,
                   newState, oldState, changes, ci, wi, inflight, attempts,
                   emitted, statesAtStart, everFailed, synthCount>>
    /\ UNCHANGED vodLog
    /\ UNCHANGED ctlVars
    /\ UNCHANGED sideVars

\* poll (Go): GetChannels; an error is logged and an empty map is used
GoGetChannels ==
    /\ pc = "getChannels"
    /\ \/ /\ pollError' = "getChannels"
          /\ channels' = NoMap
       \/ \E r \in ChannelResults(collectOfflineUserIds(userCache, streams)) :
            /\ channels' = r
            /\ UNCHANGED pollError
    /\ pc' = "process"
    /\ UNCHANGED <<inStart, userCache, states, pollCount, restartPending,
                   timeoutId, timerPending, active, exitCode, streams, idx,
                   newState, oldState, changes, ci, wi, inflight, attempts,
                   emitted, statesAtStart, everFailed, synthCount>>
    /\ UNCHANGED vodLog
    /\ UNCHANGED ctlVars
    /\ UNCHANGED sideVars

\* processStreamer (Go): `if len(combined) > 0 { p.onChanges(combined, sc) }`
GoCallOnChanges(cs) ==
    /\ emitted' = IF Len(cs) > 0
                  THEN Append(emitted, Emission(cs))
                  ELSE emitted
    /\ pc' = "update"

\* processStreamer (Go), up to GetLatestVod or to UpdateState
GoProcessStreamer ==
    /\ pc = "process"
    /\ LET key == ToLower(Streamers[idx])
           user == userCache[key]
       IN  IF user = None
           THEN /\ GoNextStreamer
                /\ UNCHANGED <<newState, oldState, changes, emitted, synthCount>>
           ELSE LET new == GoBuildStreamerState(user, streams[key], channels[key])
                    old == getState(states, key)
                    cs == GoDetectAndCombine(old, new)
                IN  /\ newState' = new
                    /\ oldState' = old
                    /\ changes' = cs
                    /\ synthCount' =
                         IF old = None /\ new.isLive
                         THEN [synthCount EXCEPT ![key] = @ + 1]
                         ELSE synthCount
                    /\ IF HasOffline(cs)
                       THEN pc' = "vod" /\ UNCHANGED emitted
                       ELSE GoCallOnChanges(cs)
                    /\ UNCHANGED <<idx, active, pollCount, inStart, timeoutId>>
    /\ UNCHANGED <<userCache, states, restartPending, timerPending, exitCode,
                   streams, channels, ci, wi, inflight, pollError, attempts,
                   statesAtStart, everFailed>>
    /\ UNCHANGED vodLog
    /\ UNCHANGED ctlVars
    /\ UNCHANGED sideVars

\* attachVodInfo (Go): an error or a nil VOD leaves the change as it is
GoAttachVodInfo ==
    /\ pc = "vod"
    /\ \E vod \in {TwitchVideo, None}, err \in BOOLEAN :
         /\ changes' = WithVod(changes, IF err THEN None ELSE vod)
         /\ vodLog' = Append(vodLog, VodCall(IF err THEN "error"
                                             ELSE IF vod = None THEN "null" ELSE "vod"))
         /\ GoCallOnChanges(changes')
    /\ UNCHANGED <<inStart, userCache, states, pollCount, restartPending,
                   timeoutId, timerPending, active, exitCode, streams,
                   channels, idx, newState, oldState, ci, wi, inflight,
                   pollError, attempts, statesAtStart, everFailed, synthCount>>
    /\ UNCHANGED ctlVars
    /\ UNCHANGED sideVars

\* processStreamer (Go): p.stateManager.UpdateState(key, newState)
GoUpdateState ==
    /\ pc = "update"
    /\ states' = updateState(states, Streamers[idx], newState)
    /\ GoNextStreamer
    /\ UNCHANGED <<userCache, restartPending, timerPending, exitCode, streams,
                   channels, newState, oldState, changes, ci, wi, inflight,
                   pollError, attempts, emitted, statesAtStart, everFailed,
                   synthCount>>
    /\ UNCHANGED vodLog
    /\ UNCHANGED ctlVars
    /\ UNCHANGED sideVars

\* the ticker of Run puts a tick into its one-slot channel
GoTick ==
    /\ timeoutId = "set"
    /\ exitCode = "running"
    /\ ~timerPending
    /\ timerPending' = TRUE
    /\ UNCHANGED <<pc, inStart, userCache, states, pollCount, restartPending,
                   timeoutId, active, exitCode, streams, channels, idx,
                   newState, oldState, changes, ci, wi, inflight, pollError,
                   attempts, emitted, statesAtStart, everFailed, synthCount>>
    /\ UNCHANGED vodLog
    /\ UNCHANGED ctlVars
    /\ UNCHANGED sideVars

\* Run: `case <-ticker.C: p.poll(ctx)`
GoSelectTick ==
    /\ pc = "idle"
    /\ timerPending
    /\ pollCount < MaxPolls
    /\ timerPending' = FALSE
    /\ BeginPoll
    /\ UNCHANGED <<inStart, userCache, states, pollCount, restartPending,
                   timeoutId, exitCode, inflight, everFailed, synthCount>>
    /\ UNCHANGED ctlVars
    /\ UNCHANGED sideVars

NextGo ==
    \/ GoRun
    \/ GoGetStreams
    \/ GoGetChannels
    \/ GoProcessStreamer
    \/ GoAttachVodInfo
    \/ GoUpdateState
    \/ GoTick
    \/ GoSelectTick

SpecGo == Init /\ [][NextGo]_vars

(***************************************************************************)
(* SpecDiff: the detectors and the merge applied to every pair of          *)
(* snapshots the scheduler can build                                       *)
(***************************************************************************)
DiffTitles == {"", "A", "B"}
DiffGameIds == {"", "X", "Y"}
DiffStartTimes == {"t1", "t2"}

DiffStreams ==
    {TwitchStream(t, g, s) : t \in DiffTitles, g \in DiffGameIds, s \in DiffStartTimes}

DiffChannels == {TwitchChannel(t, g) : t \in DiffTitles, g \in DiffGameIds}

\* the snapshots buildStreamerState yields: live, offline with and without
\* channel information
Snapshots ==
    {buildStreamerState(TwitchUser("foo"), st, None) : st \in DiffStreams}
    \cup {buildStreamerState(TwitchUser("foo"), None, ch) : ch \in DiffChannels \cup {None}}

GoSnapshots ==
    {GoBuildStreamerState(TwitchUser("foo"), st, None) : st \in DiffStreams}
    \cup {GoBuildStreamerState(TwitchUser("foo"), None, ch) : ch \in DiffChannels \cup {None}}

InitDiff ==
    /\ InitPoller
    /\ AuthOff
    /\ ExtraOff
    /\ dOut = <<>>
    /\ \/ /\ dStage = "input"
          /\ dOld \in Snapshots \cup {None}
          /\ dNew \in Snapshots
       \/ /\ dStage = "inputGo"
          /\ dOld \in GoSnapshots \cup {None}
          /\ dNew \in GoSnapshots

\* detectChanges(oldState, newState)
DiffDetect ==
    /\ dStage = "input"
    /\ dOut' = detectChanges(dOld, dNew)
    /\ dStage' = "detected"
    /\ UNCHANGED <<dOld, dNew>>
    /\ UNCHANGED pollerVars
    /\ UNCHANGED <<authVars, extraVars>>

\* this.combineChanges(detectedChanges)
DiffCombine ==
    /\ dStage = "detected"
    /\ dOut' = combineChanges(dOut)
    /\ dStage' = "combined"
    /\ UNCHANGED <<dOld, dNew>>
    /\ UNCHANGED pollerVars
    /\ UNCHANGED <<authVars, extraVars>>

\* DetectChanges(oldState, newState) (Go)
GoDiffDetect ==
    /\ dStage = "inputGo"
    /\ dOut' = GoDetectChanges(dOld, dNew)
    /\ dStage' = "detectedGo"
    /\ UNCHANGED <<dOld, dNew>>
    /\ UNCHANGED pollerVars
    /\ UNCHANGED <<authVars, extraVars>>

\* combineChanges(detectedChanges) (Go)
GoDiffCombine ==
    /\ dStage = "detectedGo"
    /\ dOut' = GoCombineChanges(dOut)
    /\ dStage' = "combinedGo"
    /\ UNCHANGED <<dOld, dNew>>
    /\ UNCHANGED pollerVars
    /\ UNCHANGED <<authVars, extraVars>>

NextDiff ==
    \/ DiffDetect
    \/ DiffCombine
    \/ GoDiffDetect
    \/ GoDiffCombine

SpecDiff == InitDiff /\ [][NextDiff]_vars

(***************************************************************************)
(* combineChanges on any list of changes, applied once and once more       *)
(***************************************************************************)
MaxLen == 3

\* the lists of up to MaxLen changes (Go changes if go) for the snapshot st:
\* every type, with two different title changes
EventLists(go, st) ==
    LET Mk(type) == IF go THEN GoChange(type, st) ELSE Change(type, st)
        events ==
            {Mk(Online), Mk(Offline), Mk(TitleAndGameChange),
             [Mk(TitleChange) EXCEPT !.oldValue = "A", !.newValue = "B"],
             [Mk(TitleChange) EXCEPT !.oldValue = "B", !.newValue = "C"],
             [Mk(GameChange) EXCEPT !.oldValue = "GameX", !.newValue = "GameY"]}
    IN  UNION {[1..n -> events] : n \in 0..MaxLen}

\* dOld is the list given to combineChanges
InitMerge ==
    /\ InitPoller
    /\ AuthOff
    /\ ExtraOff
    /\ dNew = None
    /\ dOut = <<>>
    /\ \/ /\ dStage = "list"
          /\ dOld \in EventLists(FALSE, StoredLive("foo"))
       \/ /\ dStage = "listGo"
          /\ dOld \in EventLists(TRUE,
                        GoBuildStreamerState(TwitchUser("foo"),
                                             TwitchStream("A", "X", "t1"), None))

\* combineChanges(changes)
MergeOnce ==
    /\ \/ /\ dStage = "list"
          /\ dOut' = combineChanges(dOld)
          /\ dStage' = "merged"
       \/ /\ dStage = "listGo"
          /\ dOut' = GoCombineChanges(dOld)
          /\ dStage' = "mergedGo"
    /\ UNCHANGED <<dOld, dNew>>
    /\ UNCHANGED pollerVars
    /\ UNCHANGED <<authVars, extraVars>>

\* combineChanges applied to its own result; dNew keeps the first result
MergeTwice ==
    /\ \/ /\ dStage = "merged"
          /\ dOut' = combineChanges(dOut)
          /\ dStage' = "mergedTwice"
       \/ /\ dStage = "mergedGo"
          /\ dOut' = GoCombineChanges(dOut)
          /\ dStage' = "mergedTwiceGo"
    /\ dNew' = dOut
    /\ UNCHANGED dOld
    /\ UNCHANGED pollerVars
    /\ UNCHANGED <<authVars, extraVars>>

NextMerge ==
    \/ MergeOnce
    \/ MergeTwice

SpecMerge == InitMerge /\ [][NextMerge]_vars

(***************************************************************************)
(* The supervisor (runSupervisor) and its worker process.  The worker is   *)
(* "starting" until start() has resolved and the signal handlers are       *)
(* registered, then "ready".                                               *)
(***************************************************************************)
MaxSpawns == 5

\* the worker finishes startMonitor: process.on("SIGINT" / "SIGTERM", shutdown)
WorkerReady ==
    /\ supPc = "running"
    /\ wPc = "starting"
    /\ wPc' = "ready"
    /\ UNCHANGED <<supPc, supCode, wCode, spawned, alive, zeroExits, sigAt>>
    /\ UNCHANGED <<pollerVars, diffVars, authVars, storeVars, apiVars>>

\* the worker process ends with `code`
WorkerEnds(code) ==
    /\ wPc' = "exited"
    /\ wCode' = code
    /\ alive' = alive - 1

\* the worker exits by itself: main's catch during startup (exit 1), or
\* checkRestart once it polls (exit 0)
WorkerExit ==
    /\ supPc = "running"
    /\ \/ wPc = "starting" /\ WorkerEnds("1")
       \/ wPc = "ready" /\ WorkerEnds("0")
    /\ UNCHANGED <<supPc, supCode, spawned, zeroExits, sigAt>>
    /\ UNCHANGED <<pollerVars, diffVars, authVars, storeVars, apiVars>>

\* SIGINT or SIGTERM reaches the supervisor: forwardSignal calls
\* worker.kill().  A ready worker runs shutdown and exits 0; a starting
\* worker has no handler and is ended by the signal (no exit code, or 143);
\* killing a worker that has exited does nothing.
SupSignal ==
    /\ supPc = "running"
    /\ sigAt' = IF sigAt = -1 THEN spawned ELSE sigAt
    /\ \/ wPc = "ready" /\ WorkerEnds("0")
       \/ wPc = "starting" /\ \E code \in {"null", "143"} : WorkerEnds(code)
       \/ wPc \in {"exited", "reaped"} /\ UNCHANGED <<wPc, wCode, alive>>
    /\ UNCHANGED <<supPc, supCode, spawned, zeroExits>>
    /\ UNCHANGED <<pollerVars, diffVars, authVars, storeVars, apiVars>>

\* mutant of Respawn: every exit is followed by a new worker
Respawn_Always(code) == TRUE

\* onExit: `if (exitCode === 0)`
Respawn(code) == code = "0"

\* the onExit callback of Bun.spawn: spawnWorker() after exit code 0,
\* otherwise process.exit(exitCode ?? 1)
SupOnExit ==
    /\ supPc = "running"
    /\ wPc = "exited"
    /\ IF Respawn(wCode)
       THEN /\ spawned < MaxSpawns
            /\ spawned' = spawned + 1
            /\ alive' = alive + 1
            /\ zeroExits' = zeroExits + (IF wCode = "0" THEN 1 ELSE 0)
            /\ wPc' = "starting"
            /\ wCode' = "none"
            /\ UNCHANGED <<supPc, supCode>>
       ELSE /\ supPc' = "exited"
            /\ supCode' = IF wCode = "null" THEN "1" ELSE wCode
            /\ wPc' = "reaped"
            /\ UNCHANGED <<wCode, spawned, alive, zeroExits>>
    /\ UNCHANGED sigAt
    /\ UNCHANGED <<pollerVars, diffVars, authVars, storeVars, apiVars>>

NextSup ==
    \/ WorkerReady
    \/ WorkerExit
    \/ SupSignal
    \/ SupOnExit

SpecSup == Init /\ [][NextSup]_vars

\* processes end and callbacks run: a killed or exiting worker does exit and
\* its onExit callback is called
SpecSupLive == SpecSup /\ WF_vars(SupOnExit)

(***************************************************************************)
(* SpecAuth: the credential broker (TwitchAuth of twitch/auth.ts, Auth of   *)
(* internal/twitch/auth.go) called by concurrent callers                   *)
(***************************************************************************)
InitAuth ==
    /\ InitPoller
    /\ dOld = None
    /\ dNew = None
    /\ dOut = <<>>
    /\ dStage = "off"
    /\ ExtraOff
    /\ aImpl \in {"ts", "go"}
    /\ AuthFields

\* the refresh requests in flight
Fetching == {c \in Callers : cpc[c] = "fetching"}

\* mutant of TokenUsable: the token is used up to its recorded expiry
TokenUsable_NoMargin(tok, exp, t) ==
    tok # NoToken /\ t < exp

\* getToken: `this.accessToken && Date.now() < this.expiresAt - 60000`
TokenUsable(tok, exp, t) ==
    tok # NoToken /\ t < exp - SafetyMargin

\* getToken's cache check, and what it leads to
CheckCache(c) ==
    /\ atCall' = [atCall EXCEPT ![c] = [tok |-> accessToken, exp |-> expiresAt,
                                        now |-> now]]
    /\ fetched' = [fetched EXCEPT ![c] = NoToken]
    /\ IF TokenUsable(accessToken, expiresAt, now)
       THEN /\ path' = [path EXCEPT ![c] = "cache"]
            /\ returned' = [returned EXCEPT ![c] = accessToken]
            /\ cpc' = [cpc EXCEPT ![c] = "done"]
       ELSE /\ path' = [path EXCEPT ![c] = "refresh"]
            /\ returned' = [returned EXCEPT ![c] = "none"]
            /\ cpc' = [cpc EXCEPT ![c] = "fetching"]

\* the ways refreshToken fails: non-success status, transport error or
\* timeout, unparsable body
RefreshErrors == {"status", "transport", "parse"}

\* mutant of CredentialAfterFailure: a failed refresh clears the credential
CredentialAfterFailure_Cleared == <<NoToken, 0>>

\* refreshToken throws / returns an error before any assignment
CredentialAfterFailure == <<accessToken, expiresAt>>

\* refreshToken settles: a failure, or a token response stored in the broker
RefreshSettle(c) ==
    \/ \E err \in RefreshErrors :
         /\ accessToken' = CredentialAfterFailure[1]
         /\ expiresAt' = CredentialAfterFailure[2]
         /\ returned' = [returned EXCEPT ![c] = err]
         /\ cpc' = [cpc EXCEPT ![c] = "failed"]
         /\ UNCHANGED <<issued, fetched, expiryOf>>
    \/ \E ttl \in ExpiresIns :
         /\ issued < MaxTokens
         /\ issued' = issued + 1
         /\ accessToken' = issued + 1
         /\ expiresAt' = now + ttl
         /\ fetched' = [fetched EXCEPT ![c] = issued + 1]
         /\ expiryOf' = [expiryOf EXCEPT ![issued + 1] = now + ttl]
         /\ returned' = [returned EXCEPT ![c] = accessToken']
         /\ cpc' = [cpc EXCEPT ![c] = "done"]

\* TwitchAuth.getToken up to its first await
TsGetToken(c) ==
    /\ aImpl = "ts"
    /\ cpc[c] = "idle"
    /\ calls[c] < MaxCalls
    /\ calls' = [calls EXCEPT ![c] = @ + 1]
    /\ CheckCache(c)
    /\ UNCHANGED <<aImpl, accessToken, expiresAt, now, mu, issued, expiryOf>>
    /\ UNCHANGED <<pollerVars, diffVars, extraVars>>

\* TwitchAuth.refreshToken after `await fetch`
TsRefreshSettle(c) ==
    /\ aImpl = "ts"
    /\ cpc[c] = "fetching"
    /\ RefreshSettle(c)
    /\ UNCHANGED <<aImpl, now, mu, calls, atCall, path>>
    /\ UNCHANGED <<pollerVars, diffVars, extraVars>>

\* Auth.GetToken is called: the caller blocks on a.mu.Lock()
GoArrive(c) ==
    /\ aImpl = "go"
    /\ cpc[c] = "idle"
    /\ calls[c] < MaxCalls
    /\ calls' = [calls EXCEPT ![c] = @ + 1]
    /\ cpc' = [cpc EXCEPT ![c] = "waiting"]
    /\ UNCHANGED <<aImpl, accessToken, expiresAt, now, mu, issued, atCall, path,
                   fetched, returned, expiryOf>>
    /\ UNCHANGED <<pollerVars, diffVars, extraVars>>

\* Auth.GetToken gets the mutex and checks the cache; a cached token is
\* returned and the deferred Unlock runs
GoGetToken(c) ==
    /\ aImpl = "go"
    /\ cpc[c] = "waiting"
    /\ mu = "free"
    /\ CheckCache(c)
    /\ mu' = IF TokenUsable(accessToken, expiresAt, now) THEN "free" ELSE c
    /\ UNCHANGED <<aImpl, accessToken, expiresAt, now, calls, issued,
                   expiryOf>>
    /\ UNCHANGED <<pollerVars, diffVars, extraVars>>

\* Auth.refreshToken after http.DefaultClient.Do, then the deferred Unlock
GoRefreshSettle(c) ==
    /\ aImpl = "go"
    /\ cpc[c] = "fetching"
    /\ mu = c
    /\ RefreshSettle(c)
    /\ mu' = "free"
    /\ UNCHANGED <<aImpl, now, calls, atCall, path>>
    /\ UNCHANGED <<pollerVars, diffVars, extraVars>>

\* the caller has its answer and may call again
AuthReturn(c) ==
    /\ aImpl # "off"
    /\ cpc[c] \in {"done", "failed"}
    /\ cpc' = [cpc EXCEPT ![c] = "idle"]
    /\ atCall' = [atCall EXCEPT ![c] = None]
    /\ path' = [path EXCEPT ![c] = "none"]
    /\ fetched' = [fetched EXCEPT ![c] = NoToken]
    /\ returned' = [returned EXCEPT ![c] = "none"]
    /\ UNCHANGED <<aImpl, accessToken, expiresAt, now, mu, calls, issued,
                   expiryOf>>
    /\ UNCHANGED <<pollerVars, diffVars, extraVars>>

\* a minute passes
ClockTick ==
    /\ aImpl # "off"
    /\ now < MaxTime
    /\ now' = now + 1
    /\ UNCHANGED <<aImpl, accessToken, expiresAt, mu, cpc, calls, issued, atCall,
                   path, fetched, returned, expiryOf>>
    /\ UNCHANGED <<pollerVars, diffVars, extraVars>>

NextAuth ==
    \/ \E c \in Callers : TsGetToken(c)
    \/ \E c \in Callers : TsRefreshSettle(c)
    \/ \E c \in Callers : GoArrive(c)
    \/ \E c \in Callers : GoGetToken(c)
    \/ \E c \in Callers : GoRefreshSettle(c)
    \/ \E c \in Callers : AuthReturn(c)
    \/ ClockTick

SpecAuth == InitAuth /\ [][NextAuth]_vars

(***************************************************************************)
(* The state store (Go: StateManager) on its own, called with strings of   *)
(* any letter case, and the way processStreamer uses it                    *)
(***************************************************************************)
\* the snapshots a caller may store under a key
StoreValues(key) ==
    IF key \in UpstreamLogins
    THEN {StoredLive(key), StoredOffline(key),
          buildStreamerState(TwitchUser(key), None, TwitchChannel("", ""))}
    ELSE {}

\* StateManager.UpdateState(username, state)
StoreUpdate ==
    \E h \in Handles : \E s \in StoreValues(ToLower(h)) :
        /\ sm' = updateState(sm, h, s)
        /\ smWritten' = [smWritten EXCEPT ![ToLower(h)] = [handle |-> h, state |-> s]]
        /\ smArg' = "none"
        /\ UNCHANGED smGot
        /\ UNCHANGED <<pollerVars, diffVars, authVars, apiVars, supVars>>

\* StateManager.GetState(username)
StoreGet ==
    \E h \in Handles :
        /\ smGot' = getState(sm, h)
        /\ smArg' = h
        /\ UNCHANGED <<sm, smWritten>>
        /\ UNCHANGED <<pollerVars, diffVars, authVars, apiVars, supVars>>

\* processStreamer for a tracked handle: the caller folds the handle, reads
\* the baseline and stores the new snapshot under the folded string
StoreProcess ==
    \E h \in Handles : \E s \in StoreValues(ToLower(h)) :
        LET key == ToLower(h)
        IN  /\ smGot' = getState(sm, key)
            /\ smArg' = "none"
            /\ sm' = updateState(sm, key, s)
            /\ smWritten' = [smWritten EXCEPT ![key] = [handle |-> h, state |-> s]]
            /\ UNCHANGED <<pollerVars, diffVars, authVars, apiVars, supVars>>

NextStore ==
    \/ StoreUpdate
    \/ StoreGet
    \/ StoreProcess

SpecStore == Init /\ [][NextStore]_vars

(***************************************************************************)
(* The batch calls of the API client (TwitchAPI.getUsers, getStreams,      *)
(* getChannels and request; Go: GetUsers, GetStreams, GetChannels), called *)
(* with any identifier list, and the getChannels call of poll()            *)
(***************************************************************************)
MaxIds == 2

\* identifier lists of up to MaxIds entries
IdLists(ids) == UNION {[1..n -> ids] : n \in 0..MaxIds}

\* mutant of EmptyBatch: no list counts as empty
EmptyBatch_Never(ids) == FALSE

\* `if (logins.length === 0) return new Map()`
EmptyBatch(ids) == Len(ids) = 0

\* entry of a batch method: an empty list returns an empty map at once,
\* any other list goes on to request()
ApiInvoke(fn, ids, allLive) ==
    /\ apiCall' = [fn |-> fn, ids |-> ids, allLive |-> allLive]
    /\ apiLog' = <<>>
    /\ IF EmptyBatch(ids)
       THEN apiPc' = "done" /\ apiResult' = {}
       ELSE apiPc' = "token" /\ UNCHANGED apiResult

\* some caller calls a batch method
ApiEnter ==
    /\ apiPc = "idle"
    /\ \/ \E fn \in {"getUsers", "getStreams"} : \E ids \in IdLists({"Foo", "bar"}) :
            ApiInvoke(fn, ids, FALSE)
       \/ \E ids \in IdLists({"id1", "id2"}) : ApiInvoke("getChannels", ids, FALSE)
    /\ UNCHANGED <<pollerVars, diffVars, authVars, storeVars, supVars>>

\* poll(): after getStreams returned r, getChannels is called for the
\* offline ids, or not at all when there is none
ApiPollChannels ==
    /\ apiPc = "idle"
    /\ \E r \in StreamResults :
         LET ids == collectOfflineUserIds(getUsers(Streamers), r)
         IN  IF Len(ids) > 0
             THEN ApiInvoke("getChannels", ids, FALSE)
             ELSE /\ apiCall' = [fn |-> "none", ids |-> ids, allLive |-> TRUE]
                  /\ apiLog' = <<>>
                  /\ apiResult' = {}
                  /\ apiPc' = "done"
    /\ UNCHANGED <<pollerVars, diffVars, authVars, storeVars, supVars>>

\* request(): await this.auth.getToken(), which may reject
ApiToken ==
    /\ apiPc = "token"
    /\ apiLog' = Append(apiLog, "token")
    /\ \/ apiPc' = "fetch" /\ UNCHANGED apiResult
       \/ apiPc' = "done" /\ apiResult' = "error"
    /\ UNCHANGED apiCall
    /\ UNCHANGED <<pollerVars, diffVars, authVars, storeVars, supVars>>

\* request(): the fetch of the endpoint; the map is keyed by what came back
ApiFetch ==
    /\ apiPc = "fetch"
    /\ apiLog' = Append(apiLog, apiCall.fn)
    /\ apiPc' = "done"
    /\ \/ apiResult' = "error"
       \/ \E got \in SUBSET {apiCall.ids[i] : i \in 1..Len(apiCall.ids)} :
            apiResult' = {ToLower(g) : g \in got}
    /\ UNCHANGED apiCall
    /\ UNCHANGED <<pollerVars, diffVars, authVars, storeVars, supVars>>

\* the call has returned to its caller
ApiReturn ==
    /\ apiPc = "done"
    /\ apiPc' = "idle"
    /\ UNCHANGED <<apiCall, apiLog, apiResult>>
    /\ UNCHANGED <<pollerVars, diffVars, authVars, storeVars, supVars>>

NextApi ==
    \/ ApiEnter
    \/ ApiPollChannels
    \/ ApiToken
    \/ ApiFetch
    \/ ApiReturn

SpecApi == Init /\ [][NextApi]_vars

(***************************************************************************)
(* Properties                                                              *)
(***************************************************************************)
TypesOf(cs) == {cs[i].type : i \in 1..Len(cs)}

CountType(cs, type) == Cardinality({i \in 1..Len(cs) : cs[i].type = type})

\* C9: baseline suppression.  With no old state the detector (TypeScript and
\* Go) returns an empty list, whatever the new snapshot's liveness, title
\* and category are.
C9_BaselineSuppression ==
    (dStage \in {"detected", "detectedGo"} /\ dOld = None) => dOut = <<>>

C9_Witness ==
    /\ dStage = "detected"
    /\ dOld = None
    /\ dNew.isLive
    /\ dNew.title = "A"
    /\ dNew.gameId = "X"

\* C10: diff rules.  For a present old snapshot the result holds an online
\* change iff the entity went from offline to live, an offline change iff it
\* went from live to offline, a title change iff the titles differ and the
\* new one is non-empty, a game change iff the category ids differ; each
\* type at most once and no other type.
C10_DiffRules ==
    (dStage = "detected" /\ dOld # None) =>
        /\ (Online \in TypesOf(dOut)) <=> (~dOld.isLive /\ dNew.isLive)
        /\ (Offline \in TypesOf(dOut)) <=> (dOld.isLive /\ ~dNew.isLive)
        /\ (TitleChange \in TypesOf(dOut)) <=>
                (dOld.title # dNew.title /\ dNew.title # "")
        /\ (GameChange \in TypesOf(dOut)) <=> (dOld.gameId # dNew.gameId)
        /\ \A t \in TypesOf(dOut) : CountType(dOut, t) = 1
        /\ TypesOf(dOut) \subseteq {Online, Offline, TitleChange, GameChange}

C10_Witness ==
    /\ dStage = "detected"
    /\ dOld # None
    /\ dOld.title = "A"
    /\ dNew.title = ""
    /\ dOld.gameId = "X"
    /\ dNew.gameId = ""
    /\ TypesOf(dOut) = {GameChange}

\* the snapshot the running cycle builds for a resolved key
Built(k) == buildStreamerState(userCache[k], streams[k], channels[k])

\* settled deliveries of this cycle to webhook p[2] of streamer i for change p[1]
AttemptsAt(i, p) ==
    {j \in 1..Len(attempts) :
        /\ attempts[j].streamer = i
        /\ attempts[j].change = p[1]
        /\ attempts[j].webhook = p[2]}

FailedAttempts == {j \in 1..Len(attempts) : ~attempts[j].ok}

\* C1: partial-failure isolation.  At the end of a cycle every webhook whose
\* flags accept a change handed to the dispatcher has exactly one delivery
\* attempt for it, whichever other deliveries failed.
C1_EveryAcceptingSinkAttempted ==
    pc = "pollEnd" =>
        \A e \in 1..Len(emitted) :
            \A p \in SendPositions(emitted[e].changes,
                                   Webhooks(Streamers[emitted[e].streamer])) :
                Cardinality(AttemptsAt(emitted[e].streamer, p)) = 1

\* C2: a failed delivery has no effect on the cycle.  At the end of a cycle
\* in which a delivery failed, every tracked entity has been processed and
\* the entry of the entity whose delivery failed is the new snapshot.
C2_DeliveryFailureIsolated ==
    (pc = "pollEnd" /\ FailedAttempts # {}) =>
        /\ idx > Len(Streamers)
        /\ \A j \in FailedAttempts : states[attempts[j].key] = Built(attempts[j].key)

\* C3: a failed batch fetch leaves the store untouched.  When a cycle whose
\* live-status or channel fetch failed has ended, no entry has changed since
\* the cycle began and the cycle has emitted no change.
C3_FetchFailureLeavesStore ==
    (pc \in {"pollEnd", "idle"} /\ pollError \in {"getStreams", "getChannels"}) =>
        /\ states = statesAtStart
        /\ emitted = <<>>

\* C4: a failed or empty recording lookup is not fatal.  At the end of a
\* cycle of a run without failed deliveries, for every lookup that failed or returned
\* nothing the offline change was handed to the dispatcher without replay
\* fields, the entity's entry is the new snapshot and every tracked entity
\* has been processed.
C4_VodFailureNonFatal ==
    (pc = "pollEnd" /\ ~everFailed) =>
        \A v \in 1..Len(vodLog) :
            vodLog[v].result \in {"error", "null"} =>
                /\ \E e \in 1..Len(emitted) :
                     /\ emitted[e].streamer = vodLog[v].streamer
                     /\ \E c \in 1..Len(emitted[e].changes) :
                          /\ emitted[e].changes[c].type = Offline
                          /\ emitted[e].changes[c].vodUrl = Undef
                          /\ emitted[e].changes[c].vodThumbnailUrl = Undef
                /\ states[vodLog[v].key] = Built(vodLog[v].key)
                /\ idx > Len(Streamers)

\* C5: unconditional state update.  At the end of a cycle whose two batch
\* fetches succeeded, the entry of every resolved entity is the snapshot
\* built in that cycle.
C5_UnconditionalUpdate ==
    (pc = "pollEnd" /\ pollError \notin {"getStreams", "getChannels"}) =>
        \A k \in Keys : userCache[k] # None => states[k] = Built(k)

\* C6: cycles are never pipelined.  At most one poll() is in progress, and
\* while one is in progress no timer is pending that could start another,
\* however long the cycle takes.
C6_NoPipelining ==
    /\ active <= 1
    /\ timerPending => active = 0
    /\ (pc \in {"getStreams", "getChannels", "process", "vod", "send",
                "sending", "update", "pollEnd"}) => active = 1

C6_Witness ==
    /\ pollCount >= 1
    /\ pc = "update"
    /\ active = 1
    /\ ~timerPending
    /\ states # statesAtStart

\* the changes the running cycle finds for streamer i
CycleChanges(i) ==
    LET k == ToLower(Streamers[i])
    IN  IF userCache[k] = None THEN <<>>
        ELSE detectAndCombine(getState(statesAtStart, k), Built(k))

\* the deliveries the running cycle makes if nothing fails
OwedDeliveries ==
    {d \in (1..Len(Streamers)) \X ((1..2) \X (1..3)) :
        d[2] \in SendPositions(CycleChanges(d[1]), Webhooks(Streamers[d[1]]))}

SettledDeliveries ==
    {<<attempts[j].streamer, <<attempts[j].change, attempts[j].webhook>>>> :
        j \in 1..Len(attempts)}

C8_FirstObservation ==
    /\ (pc \in {"vod", "send", "sending", "update"} /\ oldState = None) =>
          changes = IF newState.isLive THEN << Change(Online, newState) >> ELSE <<>>
    /\ ~everFailed => \A k \in Keys : synthCount[k] <= 1

C8_Witness ==
    /\ pc = "update"
    /\ idx = 1
    /\ pollCount = 2
    /\ ~everFailed
    /\ synthCount["foo"] = 1
    /\ newState.isLive
    /\ oldState # None

\* C11: idempotence of the diff.  Diffing a stored snapshot against an equal
\* new snapshot yields no change, in both implementations.
C11_DiffIdempotent ==
    (dStage \in {"detected", "detectedGo"} /\ dOld # None /\ dOld = dNew) =>
        dOut = <<>>

C11_Witness ==
    /\ dStage = "detected"
    /\ dOld = dNew
    /\ dNew.isLive
    /\ dNew.title = "A"
    /\ dNew.gameId = "X"
    /\ dOut = <<>>

\* the list detectChanges handed to combineChanges
DetectedOf ==
    IF dStage = "combined" THEN detectChanges(dOld, dNew)
    ELSE GoDetectChanges(dOld, dNew)

\* C12: merge invariant.  After combineChanges a title-and-game change never
\* stands beside a title change or a game change; when the diff produced both
\* a title change and a game change, the result holds exactly one
\* title-and-game change carrying the title change's old/new values and the
\* game change's old/new values, and neither standalone change.
C12_MergeInvariant ==
    dStage \in {"combined", "combinedGo"} =>
        /\ TitleAndGameChange \in TypesOf(dOut) =>
              TypesOf(dOut) \cap {TitleChange, GameChange} = {}
        /\ {TitleChange, GameChange} \subseteq TypesOf(DetectedOf) =>
              /\ CountType(dOut, TitleAndGameChange) = 1
              /\ CountType(dOut, TitleChange) = 0
              /\ CountType(dOut, GameChange) = 0
              /\ \E i \in 1..Len(dOut) :
                    /\ dOut[i].type = TitleAndGameChange
                    /\ dOut[i].oldTitle = FindType(DetectedOf, TitleChange).oldValue
                    /\ dOut[i].newTitle = FindType(DetectedOf, TitleChange).newValue
                    /\ dOut[i].oldGame = FindType(DetectedOf, GameChange).oldValue
                    /\ dOut[i].newGame = FindType(DetectedOf, GameChange).newValue

C12_Witness ==
    /\ dStage = "combined"
    /\ dOld # None
    /\ dOld.title = "A" /\ dNew.title = "B"
    /\ dOld.gameId = "X" /\ dNew.gameId = "Y"
    /\ dOld.isLive /\ ~dNew.isLive
    /\ Len(dOut) = 2
    /\ dOut[2].type = TitleAndGameChange
    /\ dOut[2].oldTitle = "A" /\ dOut[2].newTitle = "B"
    /\ dOut[2].oldGame = GameNameOf("X") /\ dOut[2].newGame = GameNameOf("Y")

\* C13: offline duration carry-through.  Every offline change handed to the
\* dispatcher carries the startedAt of the entry stored before the cycle (the
\* stream that just ended), after merging and after the recording lookup.
C13_OfflineStartCarried ==
    \A e \in 1..Len(emitted) :
        \A c \in 1..Len(emitted[e].changes) :
            emitted[e].changes[c].type = Offline =>
                /\ statesAtStart[emitted[e].key] # None
                /\ statesAtStart[emitted[e].key].isLive
                /\ emitted[e].changes[c].streamStartedAt =
                      statesAtStart[emitted[e].key].startedAt
                /\ emitted[e].changes[c].streamStartedAt \in StartTimes

C13_Witness ==
    /\ pc = "send"
    /\ Len(emitted) = 1
    /\ Len(emitted[1].changes) = 2
    /\ emitted[1].changes[1].type = Offline
    /\ emitted[1].changes[1].streamStartedAt = "t1"
    /\ emitted[1].changes[1].vodUrl # Undef
    /\ emitted[1].changes[2].type = GameChange

\* the four change kinds with a notification flag of their own
FlagKinds == {Online, Offline, TitleChange, GameChange}

\* C14: sink filtering.  At the end of a cycle, for every change of kind
\* online, offline, title or game handed to the dispatcher and every webhook
\* of the streamer, a delivery was attempted iff the webhook's flag for that
\* kind is true.
C14_AttemptIffFlag ==
    pc = "pollEnd" =>
        \A e \in 1..Len(emitted) :
            \A c \in 1..Len(emitted[e].changes) :
                emitted[e].changes[c].type \in FlagKinds =>
                    \A w \in 1..Len(Webhooks(Streamers[emitted[e].streamer])) :
                        (AttemptsAt(emitted[e].streamer, <<c, w>>) # {})
                            <=> Webhooks(Streamers[emitted[e].streamer])[w]
                                    [emitted[e].changes[c].type]

\* C15: single in-flight refresh.  At most one refresh request of the
\* broker is in flight at any time, so a caller that calls getToken while a
\* refresh is in flight starts no second one.
C15_SingleFlight ==
    Cardinality(Fetching) <= 1

\* C16: token safety margin.  getToken answers from the cache, without a
\* refresh request, iff a token is cached and the clock is strictly earlier
\* than its expiry minus one minute; in every other case it refreshes, and
\* the token it returns is the one that refresh obtained.
C16_SafetyMargin ==
    \A c \in Callers :
        path[c] # "none" =>
            /\ (path[c] = "cache") <=>
                  (atCall[c].tok # NoToken /\ atCall[c].now + 1 < atCall[c].exp)
            /\ path[c] = "cache" =>
                  /\ cpc[c] = "done"
                  /\ fetched[c] = NoToken
                  /\ returned[c] = atCall[c].tok
            /\ (path[c] = "refresh" /\ cpc[c] = "done") =>
                  /\ fetched[c] # NoToken
                  /\ returned[c] = fetched[c]

C16_Witness ==
    /\ aImpl = "ts"
    /\ path["c1"] = "refresh"
    /\ cpc["c1"] = "done"
    /\ atCall["c1"].tok # NoToken
    /\ atCall["c1"].now + 1 = atCall["c1"].exp
    /\ path["c2"] = "cache"
    /\ atCall["c2"].now + 2 = atCall["c2"].exp

\* some caller's refresh fails in this step
RefreshFails ==
    \E c \in Callers : cpc[c] = "fetching" /\ cpc'[c] = "failed"

\* C17: a failed refresh keeps the old credential.  A step in which a
\* refresh fails changes neither the cached token nor its expiry and answers
\* the caller with an error; and the cached token is always paired with the
\* expiry computed from its own token response.
C17_FailureKeepsCredential ==
    /\ [][RefreshFails =>
            /\ accessToken' = accessToken
            /\ expiresAt' = expiresAt
            /\ \A c \in Callers :
                  (cpc[c] = "fetching" /\ cpc'[c] = "failed") =>
                      returned'[c] \in RefreshErrors]_vars
    /\ [](accessToken # NoToken => expiresAt = expiryOf[accessToken])

C17_Witness ==
    /\ cpc["c1"] = "failed"
    /\ returned["c1"] = "parse"
    /\ accessToken # NoToken
    /\ expiresAt = expiryOf[accessToken]
    /\ atCall["c1"].tok = accessToken

\* the positions inside poll()
InCycle ==
    pc \in {"getStreams", "getChannels", "process", "vod", "send", "sending",
            "update", "pollEnd"}

\* C18: startup order.  A cycle runs only with the identity cache filled by
\* getUsers; while start() runs exactly one cycle is started and no timer is
\* armed; the timer is armed once that cycle has completed; when getUsers
\* fails the process has exited with status 1, no cycle has run and no timer
\* is armed.
C18_StartupOrder ==
    /\ InCycle => userCache = getUsers(Streamers)
    /\ inStart => /\ pollCount = 0
                  /\ active <= 1
                  /\ ~timerPending
                  /\ timeoutId = "null"
    /\ (pc = "idle" /\ pollCount = 1 /\ stopMark = -1) =>
          timerPending /\ timeoutId = "set"
    /\ exitCode = "1" => /\ pc = "exited"
                         /\ userCache = NoMap
                         /\ CyclesStarted = 0
                         /\ states = NoMap
                         /\ ~timerPending
                         /\ timeoutId = "null"

C18_Witness ==
    /\ pc = "idle"
    /\ pollCount = 1
    /\ ~inStart
    /\ timerPending
    /\ userCache["foo"] # None
    /\ userCache["ghost"] = None
    /\ states["foo"] # None

\* C19: stop arms nothing.  Once stop() has been called no timer is armed
\* and no further cycle is started, wherever the scheduler was.
C19_StopArmsNothing ==
    stopMark # -1 =>
        /\ ~timerPending
        /\ CyclesStarted <= stopMark

\* C20: graceful shutdown.  The shutdown handler ends the process only
\* between cycles: a cycle in progress when the signal arrives has run to
\* its end, and no delivery is in flight, when the process exits.
C20_GracefulShutdown ==
    (shutdownAt # "none" /\ exitCode = "0") =>
        /\ shutdownAt = "idle"
        /\ inflight = {}

\* C21: a resource-guard restart (exit code 0 without a signal) leaves the
\* process only from the end of a cycle, after every tracked entity was
\* processed or the cycle was abandoned by its catch block, with the
\* restart-pending flag set and with no stored state that has isLive = true.
RestartExit == pc = "exited" /\ exitCode = "0" /\ shutdownAt = "none"

C21_RestartGuard ==
    RestartExit =>
        /\ restartPending
        /\ \A k \in Keys : states[k] = None \/ ~states[k].isLive
        /\ inflight = {}
        /\ idx > Len(Streamers) \/ pollError # "none"
        /\ pollCount >= MEMORY_LOG_INTERVAL

\* a restart exit one cycle after the flag was set, once the live entity of
\* the first store had gone offline
C21_Witness ==
    /\ RestartExit
    /\ pollCount = MEMORY_LOG_INTERVAL + 1
    /\ \E k \in Keys : statesAtStart[k] # None /\ statesAtStart[k].isLive

\* C22: a get under any letter case returns the last update made under any
\* letter case of the same handle, and the store never holds two entries
\* for handles that are equal up to letter case.
LastWritten(key) ==
    IF smWritten[key] = None THEN None ELSE smWritten[key].state

C22_CaseInsensitiveIdentity ==
    /\ \A h \in Handles : getState(sm, h) = LastWritten(ToLower(h))
    /\ smArg # "none" => smGot = LastWritten(ToLower(smArg))
    /\ \A h1, h2 \in Handles :
            (h1 # h2 /\ ToLower(h1) = ToLower(h2)) => (sm[h1] = None \/ sm[h2] = None)
    /\ \A h \in Handles : sm[h] # None => h = ToLower(h)

\* an update under "Foo" is what a get under "FOO" returned
C22_Witness ==
    /\ smWritten["foo"] # None
    /\ smWritten["foo"].handle = "Foo"
    /\ smArg = "FOO"
    /\ smGot = smWritten["foo"].state

\* C23: an entity that has a store entry has one in every later state, and
\* whenever an entry changes, the new entry is the complete snapshot built
\* from the running cycle's results; no field of the replaced entry stays.
C23_EntryLifecycle ==
    [][\A k \in Keys :
          /\ states[k] # None => states'[k] # None
          /\ states'[k] # states[k] => states'[k] = Built(k)]_vars

\* an entry of an earlier cycle was replaced by a different snapshot
C23_Witness ==
    \E k \in Keys :
        /\ statesAtStart[k] # None
        /\ states[k] # statesAtStart[k]
        /\ states[k] = Built(k)

\* C24: a batch call with an empty identifier list returns an empty map
\* and issues neither a token request nor an API request; and when every
\* resolved entity is in the live-status result, poll() sends no
\* channel-metadata request.
C24_EmptyBatch ==
    /\ (apiCall.fn # "none" /\ Len(apiCall.ids) = 0) =>
            /\ apiLog = <<>>
            /\ apiPc \in {"done", "idle"}
            /\ apiResult = {}
    /\ apiCall.allLive =>
            /\ apiLog = <<>>
            /\ apiCall.fn # "getChannels"

\* getChannels was called with an empty list and has returned
C24_Witness ==
    /\ apiCall.fn = "getChannels"
    /\ apiCall.ids = <<>>
    /\ apiPc = "idle"
    /\ apiResult = {}

\* C25: the channel-metadata request is entered only by the step in which
\* the live-status request returns; the identifiers it asks for are exactly
\* the ids of the resolved entities absent from the live-status result, each
\* once; and no entity of the live-status result has a channel result.
C25_FetchOrderAndPartition ==
    /\ [](pc = "getChannels" =>
            LET ids == collectOfflineUserIds(userCache, streams)
                offline == {k \in Keys : userCache[k] # None /\ streams[k] = None}
            IN  /\ {ids[i] : i \in 1..Len(ids)} = {userCache[k].id : k \in offline}
                /\ Len(ids) = Cardinality(offline)
                /\ pollError = "none")
    /\ [](\A k \in Keys :
            channels[k] # None => (userCache[k] # None /\ streams[k] = None))
    /\ [][(pc' = "getChannels" /\ pc # "getChannels") =>
            (pc = "getStreams" /\ streams' \in StreamResults)]_vars
    /\ [][channels' # channels =>
            (pc = "getChannels" \/ channels' = NoMap)]_vars

\* the channel request of a cycle in which one entity is live and another
\* is offline has returned
C25_Witness ==
    /\ pc = "process"
    /\ \E k \in Keys : streams[k] # None
    /\ \E k \in Keys : channels[k] # None

\* C26: every started poll cycle eventually completes, and while the timer
\* is armed and the process runs a further cycle is eventually started,
\* whether or not a sink answers.
C26_CycleTerminates ==
    /\ (pc = "sending") ~> (pc # "sending")
    /\ InCycle ~> (~InCycle \/ pc = "exited")
    /\ (pc = "idle" /\ timerPending /\ CyclesStarted < pollBase + MaxPolls)
            ~> (InCycle \/ ~timerPending \/ exitCode # "running")

C28_LiveOnlyFields ==
    /\ \A st \in ({states[k] : k \in Keys} \cup {newState}) \ {None} :
          /\ st.isLive \/ (st.startedAt = Null /\ st.thumbnailUrl = Null /\ st.viewerCount = 0)
          /\ st.isLive => (st.startedAt # Null /\ st.thumbnailUrl # Null)
    /\ newState # None =>
          LET stream == streams[newState.username]
              channel == channels[newState.username]
          IN  /\ newState.isLive = (stream # None)
              /\ newState.isLive =>
                    /\ newState.startedAt = stream.started_at
                    /\ newState.thumbnailUrl = stream.thumbnail_url
                    /\ newState.title = stream.title
                    /\ newState.gameId = stream.game_id
              /\ ~newState.isLive =>
                    /\ newState.title = (IF channel # None THEN channel.title ELSE "")
                    /\ newState.gameId = (IF channel # None THEN channel.game_id ELSE "")
                    /\ newState.gameName = (IF channel # None THEN channel.game_name ELSE "")

\* an offline snapshot with a title from the channel result replaces a live entry
C28_Witness ==
    /\ pc = "update"
    /\ newState # None
    /\ ~newState.isLive
    /\ newState.title = "A"
    /\ channels[newState.username] # None
    /\ oldState # None
    /\ oldState.isLive

\* C29: in a cycle the recording lookup is made once for an entity whose
\* merged event set has a went-offline event and never for another entity;
\* when the lookup is made the set is already merged and nothing of it has
\* been dispatched, and a set with a went-offline event is dispatched only
\* after its lookup.
C29_VodLookupForOffline ==
    LET Lookups(i) == {v \in 1..Len(vodLog) : vodLog[v].streamer = i}
        Offlines(i) == CountType(CycleChanges(i), Offline)
    IN  /\ \A i \in 1..Len(Streamers) : Cardinality(Lookups(i)) <= Offlines(i)
        /\ InCycle =>
              \A i \in 1..Len(Streamers) :
                 (i < idx \/ (i = idx /\ pc \in {"send", "sending", "update"})) =>
                      Cardinality(Lookups(i)) = Offlines(i)
        /\ pc = "vod" =>
              /\ Lookups(idx) = {}
              /\ changes = CycleChanges(idx)
              /\ \A e \in 1..Len(emitted) : emitted[e].streamer # idx
        /\ \A e \in 1..Len(emitted) :
              CountType(emitted[e].changes, Offline) > 0 => Lookups(emitted[e].streamer) # {}

\* a went-offline event was dispatched after its lookup, and another entity
\* of the same cycle had events without any lookup
C29_Witness ==
    /\ \E e \in 1..Len(emitted) :
          /\ CountType(emitted[e].changes, Offline) > 0
          /\ \E v \in 1..Len(vodLog) : vodLog[v].streamer = emitted[e].streamer
    /\ \E e \in 1..Len(emitted) :
          /\ CountType(emitted[e].changes, Offline) = 0
          /\ \A v \in 1..Len(vodLog) : vodLog[v].streamer # emitted[e].streamer

\* C30: combineChanges (TypeScript and Go) returns a list without a title
\* change or without a category change unchanged; when it merges, the
\* went-live and went-offline changes of the input are kept as they are and
\* in their order, no single title or category change is left, and the
\* merged change is the last element; and applying combineChanges to its own
\* result gives that result again.
C30_MergeFrameAndIdempotence ==
    LET IsLiveness(c) == c.type \in {Online, Offline}
        lacks == CountType(dOld, TitleChange) = 0 \/ CountType(dOld, GameChange) = 0
    IN  /\ (dStage \in {"merged", "mergedGo"} /\ lacks) => dOut = dOld
        /\ (dStage \in {"merged", "mergedGo"} /\ ~lacks) =>
              /\ SelectSeq(dOut, IsLiveness) = SelectSeq(dOld, IsLiveness)
              /\ Len(dOut) = Len(SelectSeq(dOld, IsOther)) + 1
              /\ SubSeq(dOut, 1, Len(dOut) - 1) = SelectSeq(dOld, IsOther)
              /\ dOut[Len(dOut)].type = TitleAndGameChange
              /\ CountType(dOut, TitleChange) = 0
              /\ CountType(dOut, GameChange) = 0
        /\ dStage \in {"mergedTwice", "mergedTwiceGo"} => dOut = dNew

\* a list with a title change, a category change and a went-live change
\* between them was merged, and merged once more
C30_Witness ==
    /\ dStage = "mergedTwice"
    /\ Len(dOld) = 3
    /\ dOld[1].type = TitleChange
    /\ dOld[2].type = Online
    /\ dOld[3].type = GameChange
    /\ Len(dOut) = 2

\* C31: a cycle that observes for an entity the liveness, title and
\* category id of its store entry emits nothing for the entity and sends
\* nothing to its sinks; and a transition is notified in one cycle only: at
\* the end of a cycle that delivered a notification for an entity, the
\* entity's entry is the snapshot of that cycle, so that the next cycle does
\* not detect the transition again.
C31_NoRepeatedNotification ==
    /\ (pc \in {"process", "vod", "send", "sending", "update", "pollEnd"}
            /\ pollError \notin {"getStreams", "getChannels"}) =>
          \A i \in 1..Len(Streamers) :
            LET k == ToLower(Streamers[i])
            IN  (/\ userCache[k] # None
                 /\ statesAtStart[k] # None
                 /\ statesAtStart[k].isLive = Built(k).isLive
                 /\ statesAtStart[k].title = Built(k).title
                 /\ statesAtStart[k].gameId = Built(k).gameId) =>
                    /\ \A e \in 1..Len(emitted) : emitted[e].streamer # i
                    /\ \A j \in 1..Len(attempts) : attempts[j].streamer # i
    /\ pc = "pollEnd" =>
          \A j \in 1..Len(attempts) :
            attempts[j].ok => states[attempts[j].key] = Built(attempts[j].key)

\* C32: the merged event set of an entity (the one being processed and
\* every one handed to the dispatcher) never has both a went-live and a
\* went-offline event, has at most one event of each kind, at most one of
\* title, category and title-and-category, at most two events in all, and
\* every event carries the handle of the new snapshot.
C32_EventSetShape ==
    \A cs \in {changes} \cup {emitted[e].changes : e \in 1..Len(emitted)} :
        /\ CountType(cs, Online) + CountType(cs, Offline) <= 1
        /\ CountType(cs, TitleChange) + CountType(cs, GameChange)
               + CountType(cs, TitleAndGameChange) <= 1
        /\ Len(cs) <= 2
        /\ \A c \in 1..Len(cs) :
              /\ cs[c].streamer = cs[c].currentState.username
              /\ cs[c].streamer = ToLower(cs[c].streamer)
              /\ (cs = changes /\ newState # None) => cs[c].streamer = newState.username

\* a went-live event together with a merged title-and-category event
C32_Witness ==
    /\ Len(changes) = 2
    /\ CountType(changes, Online) = 1
    /\ CountType(changes, TitleAndGameChange) = 1
    /\ \E e \in 1..Len(emitted) : emitted[e].changes = changes

\* C33: acceptance of the merged kind.  At the end of a cycle, for every
\* title-and-category change handed to the dispatcher and every webhook of
\* the streamer, a delivery was attempted iff the webhook's title flag or its
\* category flag is true; and for all sixteen flag settings the decision is
\* the disjunction of these two flags, whatever the online and offline flags.
C33_MergedKindAcceptance ==
    /\ \A n \in [{Online, Offline, TitleChange, GameChange} -> BOOLEAN] :
          isNotificationEnabled(TitleAndGameChange, n) = (n[TitleChange] \/ n[GameChange])
    /\ pc = "pollEnd" =>
          \A e \in 1..Len(emitted) :
            \A c \in 1..Len(emitted[e].changes) :
                emitted[e].changes[c].type = TitleAndGameChange =>
                    \A w \in 1..Len(Webhooks(Streamers[emitted[e].streamer])) :
                        LET n == Webhooks(Streamers[emitted[e].streamer])[w]
                        IN  (AttemptsAt(emitted[e].streamer, <<c, w>>) # {})
                                <=> (n[TitleChange] \/ n[GameChange])

\* C34: the identity cache is written by start() only, once, and no cycle
\* changes it; an entity the cache has no user for never has a store entry,
\* never has an event, a delivery or a recording lookup, is in no channel
\* request or result, and does not count when isAllOffline decides whether
\* a restart may happen.
C34_UnresolvedInert ==
    /\ [][userCache' # userCache => (pc = "start" /\ userCache = NoMap)]_vars
    /\ [](\A k \in Keys : userCache[k] = None =>
            /\ states[k] = None
            /\ channels[k] = None
            /\ \A e \in 1..Len(emitted) : emitted[e].key # k
            /\ \A j \in 1..Len(attempts) : attempts[j].key # k
            /\ \A v \in 1..Len(vodLog) : vodLog[v].key # k)
    /\ [](Len(collectOfflineUserIds(userCache, streams))
            <= Cardinality({k \in Keys : userCache[k] # None}))
    /\ [](isAllOffline(states) <=>
            \A k \in Keys :
                userCache[k] # None => (states[k] = None \/ ~states[k].isLive))

\* a cycle has processed every tracked entity: the resolved ones have
\* entries, the unresolved one has none and isAllOffline holds
C34_Witness ==
    /\ pc = "pollEnd"
    /\ idx > Len(Streamers)
    /\ userCache["ghost"] = None
    /\ states["ghost"] = None
    /\ states["foo"] # None
    /\ states["bar"] # None
    /\ emitted # <<>>
    /\ isAllOffline(states)

\* C35: at most one worker is alive at any time; every worker exit with
\* code 0 is followed by exactly one new worker, so the spawns are the first
\* one plus one per such exit; and after an exit with another code no worker
\* is spawned and the supervisor exits with that code (1 when the worker
\* was ended by a signal and has no code).
C35_SupervisorRestartRule ==
    /\ alive \in {0, 1}
    /\ alive = 1 <=> wPc \in {"starting", "ready"}
    /\ spawned = 1 + zeroExits
    /\ (wPc \in {"starting", "ready"} /\ spawned > 1) => supPc = "running"
    /\ supPc = "exited" =>
          /\ wCode \notin {"0", "none"}
          /\ supCode = (IF wCode = "null" THEN "1" ELSE wCode)
          /\ alive = 0

\* a worker that exited with code 0 was replaced, and the replacement's
\* exit with code 1 ended the supervisor
C35_Witness ==
    /\ supPc = "exited"
    /\ supCode = "1"
    /\ wCode = "1"
    /\ spawned = 2
    /\ zeroExits = 1

\* C36: once a signal has reached the supervisor no further worker is
\* spawned, and eventually neither a worker nor the supervisor is running.
C36_ShutdownTerminates ==
    /\ [](sigAt # -1 => spawned = sigAt)
    /\ (sigAt # -1) ~> (alive = 0 /\ supPc = "exited")

====
